---- MODULE Spec2Model ----
(***************************************************************************)
(* A model of the concert-show cataloger of data-pipeline/01_scan_hd_shows *)
(* (catalog_shows_v3_1.py): the fact extractors that work on the note blob *)
(* and the folder name, and the directory walk of scan_roots.              *)
(*                                                                         *)
(* Text is modelled character by character: a Python str is a TLA+ string, *)
(* a character is a string of length 1, and every regular expression of    *)
(* the source is an operator that matches the same characters in the same  *)
(* (leftmost, greedy or lazy) order as Python's re module.                 *)
(***************************************************************************)
EXTENDS Integers, Sequences, FiniteSets, TLC

VARIABLES
    fn,        \* the extractor a harness specification calls ("" in the walk)
    arg,       \* its argument(s)
    res,       \* the value it returned
    returned   \* whether the call has returned

hvars == <<fn, arg, res, returned>>

VARIABLES
    fs,                  \* the folder tree on disk (never written: the scan is read-only)
    roots,               \* scan_roots argument: the list of root paths
    do_checksums,        \* scan_roots argument
    pc,                  \* "idle", "roots" (root loop head), "walk" (inside os.walk), "done"
    root_i,              \* index into roots of the root being walked
    pending,             \* os.walk: directories still to be yielded, next one first
    rows,                \* the row list
    seen_ids,            \* the set of ShowIDs met in this run
    checksum_to_showid,  \* checksum -> ShowID of the first row that produced it
    clock,               \* the wall clock read by now_iso()
    run,                 \* which call of scan_roots this is (1 or 2)
    prev_rows,           \* what the previous call returned
    visits               \* history: one record for every directory os.walk yielded

wvars == <<fs, roots, do_checksums, pc, root_i, pending, rows, seen_ids,
           checksum_to_showid, clock, run, prev_rows, visits>>

VARIABLES
    sample_rows,         \* the screenshot tool: the rows of the master CSV it works through
    out_dir,             \* the names of the files in OUTPUT_DIR
    row_i,               \* index into sample_rows of the row being worked on
    shot_idx,            \* shot_idx of the shot loop
    log_rows,            \* the capture report
    shot_pc,             \* "idle", "shots" (inside the loops), "done"
    found_images,        \* history: the names found in OUTPUT_DIR at the start
    ffmpeg_runs          \* history: one record for every time ffmpeg was run

svars == <<sample_rows, out_dir, row_i, shot_idx, log_rows, shot_pc, found_images, ffmpeg_runs>>

vars == <<hvars, wvars, svars>>

\* the screenshot tool is not running
ShotIdle ==
    /\ sample_rows = <<>>
    /\ out_dir = {}
    /\ row_i = 0
    /\ shot_idx = 0
    /\ log_rows = <<>>
    /\ shot_pc = "idle"
    /\ found_images = {}
    /\ ffmpeg_runs = <<>>

\* the walk is not running (the harness specifications of the pure extractors)
WalkIdle ==
    /\ fs = <<>>
    /\ roots = <<>>
    /\ do_checksums = FALSE
    /\ pc = "idle"
    /\ root_i = 0
    /\ pending = <<>>
    /\ rows = <<>>
    /\ seen_ids = {}
    /\ checksum_to_showid = <<>>
    /\ clock = 0
    /\ run = 0
    /\ prev_rows = <<>>
    /\ visits = <<>>

\* no extractor harness is running (the walk specification)
HarnessIdle ==
    /\ fn = ""
    /\ arg = ""
    /\ res = ""
    /\ returned = FALSE

(***************************************************************************)
(* Characters and strings (Python str methods and re character classes).   *)
(***************************************************************************)
UPPER == "ABCDEFGHIJKLMNOPQRSTUVWXYZ"
LOWER == "abcdefghijklmnopqrstuvwxyz"
DECIMAL == "0123456789"

ChAt(s, i) == IF i >= 1 /\ i <= Len(s) THEN SubSeq(s, i, i) ELSE ""

CharsOf(s) == {SubSeq(s, i, i) : i \in 1..Len(s)}

DigitChars == CharsOf(DECIMAL)

UpperChars == CharsOf(UPPER)

LowerChars == CharsOf(LOWER)

AlphaChars == UpperChars \cup LowerChars

WordChars == AlphaChars \cup DigitChars \cup {"_"}

IsDigit(c) == c \in DigitChars

IsAlpha(c) == c \in AlphaChars

IsUpper(c) == c \in UpperChars

IsSpace(c) == c \in {" ", "\n", "\t"}

IsWordCh(c) == c \in WordChars

IndexIn(s, c) == CHOOSE i \in 1..Len(s) : SubSeq(s, i, i) = c

LowerCh(c) == IF IsUpper(c) THEN ChAt(LOWER, IndexIn(UPPER, c)) ELSE c

UpperCh(c) == IF c \in LowerChars THEN ChAt(UPPER, IndexIn(LOWER, c)) ELSE c

\* str.lower(), str.upper(): character by character, one half after the other
RECURSIVE ToLower(_)
ToLower(s) ==
    IF Len(s) <= 1 THEN LowerCh(s)
    ELSE ToLower(SubSeq(s, 1, Len(s) \div 2)) \o ToLower(SubSeq(s, Len(s) \div 2 + 1, Len(s)))

RECURSIVE ToUpper(_)
ToUpper(s) ==
    IF Len(s) <= 1 THEN UpperCh(s)
    ELSE ToUpper(SubSeq(s, 1, Len(s) \div 2)) \o ToUpper(SubSeq(s, Len(s) \div 2 + 1, Len(s)))

MinOf(S) == CHOOSE x \in S : \A y \in S : x <= y

MaxOf(S) == CHOOSE x \in S : \A y \in S : x >= y

\* int(s) for a string of decimal digits
RECURSIVE StrToNat(_)
StrToNat(s) ==
    IF s = "" THEN 0
    ELSE StrToNat(SubSeq(s, 1, Len(s) - 1)) * 10 + (IndexIn(DECIMAL, ChAt(s, Len(s))) - 1)

\* str(n) for a natural number
RECURSIVE NatToStr(_)
NatToStr(n) ==
    IF n < 10 THEN ChAt(DECIMAL, n + 1)
    ELSE NatToStr(n \div 10) \o ChAt(DECIMAL, (n % 10) + 1)

\* the format specification 0<w>d
RECURSIVE ZeroPad(_, _)
ZeroPad(s, w) == IF Len(s) >= w THEN s ELSE ZeroPad("0" \o s, w)

\* \b at the gap in front of position i (1..Len(s)+1)
WordBoundary(s, i) == IsWordCh(ChAt(s, i - 1)) # IsWordCh(ChAt(s, i))

AllDigits(s, i, n) == i + n - 1 <= Len(s) /\ \A k \in i..(i + n - 1) : IsDigit(ChAt(s, k))

AllAlpha(s, i, n) == i + n - 1 <= Len(s) /\ \A k \in i..(i + n - 1) : IsAlpha(ChAt(s, k))

\* the length of the run of white space that starts at position i
RECURSIVE SpaceRun(_, _)
SpaceRun(s, i) == IF IsSpace(ChAt(s, i)) THEN 1 + SpaceRun(s, i + 1) ELSE 0

\* str.strip()
RECURSIVE LStrip(_)
LStrip(s) == IF s # "" /\ IsSpace(Head(s)) THEN LStrip(Tail(s)) ELSE s

RECURSIVE RStrip(_)
RStrip(s) ==
    IF s # "" /\ IsSpace(ChAt(s, Len(s))) THEN RStrip(SubSeq(s, 1, Len(s) - 1)) ELSE s

Strip(s) == LStrip(RStrip(s))

NoMatch == <<>>

\* re.search: the match at the leftmost position where the pattern matches
Search(At(_, _), s) ==
    LET hits == {i \in 1..Len(s) : At(s, i) # NoMatch}
    IN  IF hits = {} THEN NoMatch ELSE At(s, MinOf(hits))

\* the first candidate, in backtracking order, that satisfies ok
FirstOk(cands, ok(_)) ==
    LET good == {k \in 1..Len(cands) : ok(cands[k])}
    IN  IF good = {} THEN 0 ELSE MinOf(good)

(***************************************************************************)
(* guess_date and DATE_PATTERNS.                                           *)
(***************************************************************************)
DateSep == {"-", "/", "."}

\* the ways the two counted groups of DATE_PATTERNS[0] can be taken, greedy first
DatePattern1Cands == << <<2, 2>>, <<2, 1>>, <<1, 2>>, <<1, 1>> >>

\* DATE_PATTERNS[0]: \b(\d{4})[-/\.]([\d]{1,2})[-/\.]([\d]{1,2})\b
DatePattern1At(s, i) ==
    IF ~(IsDigit(ChAt(s, i)) /\ WordBoundary(s, i) /\ AllDigits(s, i, 4) /\ ChAt(s, i + 4) \in DateSep)
    THEN NoMatch
    ELSE LET ok(c) == /\ AllDigits(s, i + 5, c[1])
                      /\ ChAt(s, i + 5 + c[1]) \in DateSep
                      /\ AllDigits(s, i + 6 + c[1], c[2])
                      /\ WordBoundary(s, i + 6 + c[1] + c[2])
             k == FirstOk(DatePattern1Cands, ok)
         IN  IF k = 0 THEN NoMatch
             ELSE LET c == DatePattern1Cands[k]
                  IN  << SubSeq(s, i, i + 3),
                         SubSeq(s, i + 5, i + 4 + c[1]),
                         SubSeq(s, i + 6 + c[1], i + 5 + c[1] + c[2]) >>

\* the ways the three counted groups of DATE_PATTERNS[1] can be taken, greedy first
DatePattern2Cands ==
    << <<2, 2, 4>>, <<2, 2, 3>>, <<2, 2, 2>>, <<2, 1, 4>>, <<2, 1, 3>>, <<2, 1, 2>>,
       <<1, 2, 4>>, <<1, 2, 3>>, <<1, 2, 2>>, <<1, 1, 4>>, <<1, 1, 3>>, <<1, 1, 2>> >>

\* DATE_PATTERNS[1]: \b(\d{1,2})[-/\.]([\d]{1,2})[-/\.]([\d]{2,4})\b
DatePattern2At(s, i) ==
    IF ~(IsDigit(ChAt(s, i)) /\ WordBoundary(s, i))
    THEN NoMatch
    ELSE LET ok(c) == /\ AllDigits(s, i, c[1])
                      /\ ChAt(s, i + c[1]) \in DateSep
                      /\ AllDigits(s, i + c[1] + 1, c[2])
                      /\ ChAt(s, i + c[1] + 1 + c[2]) \in DateSep
                      /\ AllDigits(s, i + c[1] + c[2] + 2, c[3])
                      /\ WordBoundary(s, i + c[1] + c[2] + 2 + c[3])
             k == FirstOk(DatePattern2Cands, ok)
         IN  IF k = 0 THEN NoMatch
             ELSE LET c == DatePattern2Cands[k]
                  IN  << SubSeq(s, i, i + c[1] - 1),
                         SubSeq(s, i + c[1] + 1, i + c[1] + c[2]),
                         SubSeq(s, i + c[1] + c[2] + 2, i + c[1] + c[2] + 1 + c[3]) >>

\* the ways the groups of DATE_PATTERNS[2] can be taken, greedy first:
\* letters (9 down to 3), digits (2, then 1), the optional comma (taken, then not)
DatePattern3Cands ==
    [k \in 1..28 |-> << 9 - ((k - 1) \div 4), 2 - (((k - 1) \div 2) % 2), 1 - ((k - 1) % 2) >>]

\* DATE_PATTERNS[2]: \b([A-Za-z]{3,9})\s+(\d{1,2}),?\s+(\d{4})\b
\* (each \s+ is followed by \d, so it can only end where the white space ends)
DatePattern3At(s, i) ==
    IF ~(IsAlpha(ChAt(s, i)) /\ WordBoundary(s, i) /\ AllAlpha(s, i, 3))
    THEN NoMatch
    ELSE LET ok(c) == LET p1 == i + c[1]
                          w1 == SpaceRun(s, p1)
                          p2 == p1 + w1
                          p3 == p2 + c[2] + c[3]
                          w2 == SpaceRun(s, p3)
                          p4 == p3 + w2
                      IN  /\ AllAlpha(s, i, c[1])
                          /\ w1 >= 1
                          /\ AllDigits(s, p2, c[2])
                          /\ (c[3] = 1 => ChAt(s, p2 + c[2]) = ",")
                          /\ w2 >= 1
                          /\ AllDigits(s, p4, 4)
                          /\ WordBoundary(s, p4 + 4)
             k == FirstOk(DatePattern3Cands, ok)
         IN  IF k = 0 THEN NoMatch
             ELSE LET c == DatePattern3Cands[k]
                      p2 == i + c[1] + SpaceRun(s, i + c[1])
                      p3 == p2 + c[2] + c[3]
                      p4 == p3 + SpaceRun(s, p3)
                  IN  << SubSeq(s, i, i + c[1] - 1), SubSeq(s, p2, p2 + c[2] - 1),
                         SubSeq(s, p4, p4 + 3) >>

\* datetime.strptime(mon[:3], "%b").month; 0 stands for the ValueError it raises
MonthAbbr == <<"jan", "feb", "mar", "apr", "may", "jun", "jul", "aug", "sep", "oct", "nov", "dec">>

MonthOf(mon) ==
    LET key == ToLower(SubSeq(mon, 1, 3))
        hit == {k \in 1..12 : MonthAbbr[k] = key}
    IN  IF hit = {} THEN 0 ELSE CHOOSE k \in hit : TRUE

\* f"{y:04d}-{mo:02d}-{d:02d}"
IsoDate(y, mo, d) ==
    ZeroPad(NatToStr(y), 4) \o "-" \o ZeroPad(NatToStr(mo), 2) \o "-" \o ZeroPad(NatToStr(d), 2)

\* a plausible slip: the month-first test written as a >= 12
AmbiguousDateSlip(g) ==
    LET a == StrToNat(g[1])
        b == StrToNat(g[2])
        c0 == StrToNat(g[3])
        c == IF c0 < 100 THEN c0 + 2000 ELSE c0
    IN  IF a >= 12 THEN IsoDate(c, b, a) ELSE IsoDate(c, a, b)

\* the branch of guess_date for a match of DATE_PATTERNS[1]
AmbiguousDate(g) ==
    LET a == StrToNat(g[1])
        b == StrToNat(g[2])
        c0 == StrToNat(g[3])
        c == IF c0 < 100 THEN c0 + 2000 ELSE c0
    IN  IF a > 12 THEN IsoDate(c, b, a) ELSE IsoDate(c, a, b)

\* the date, from the matches m1, m2, m3 of the three DATE_PATTERNS in the text
DateOfMatches(m1, m2, m3) ==
    IF m1 # NoMatch THEN IsoDate(StrToNat(m1[1]), StrToNat(m1[2]), StrToNat(m1[3]))
    ELSE IF m2 # NoMatch THEN AmbiguousDate(m2)
    ELSE IF m3 # NoMatch /\ MonthOf(m3[1]) # 0
    THEN IsoDate(StrToNat(m3[3]), MonthOf(m3[1]), StrToNat(m3[2]))
    ELSE ""

guess_date(text) ==
    IF text = "" THEN ""
    ELSE DateOfMatches(Search(DatePattern1At, text), Search(DatePattern2At, text),
                       Search(DatePattern3At, text))

(***************************************************************************)
(* Lines, splitting and the location tables.                               *)
(***************************************************************************)
\* the position of the first occurrence at or after i of a character of set, or 0
RECURSIVE FindCh(_, _, _)
FindCh(s, set, i) ==
    IF i > Len(s) THEN 0
    ELSE IF SubSeq(s, i, i) \in set THEN i
    ELSE FindCh(s, set, i + 1)

\* str.split on any one character of set (re.split of a one-character class)
RECURSIVE SplitOn(_, _)
SplitOn(s, set) ==
    LET k == FindCh(s, set, 1)
    IN  IF k = 0 THEN <<s>>
        ELSE <<SubSeq(s, 1, k - 1)>> \o SplitOn(SubSeq(s, k + 1, Len(s)), set)

\* str.splitlines()
splitlines(s) ==
    IF s = "" THEN <<>>
    ELSE IF ChAt(s, Len(s)) = "\n" THEN SplitOn(SubSeq(s, 1, Len(s) - 1), {"\n"})
    ELSE SplitOn(s, {"\n"})

\* [p.strip() for p in parts if p.strip()]
RECURSIVE StripNonEmpty(_)
StripNonEmpty(parts) ==
    IF parts = <<>> THEN <<>>
    ELSE LET h == Strip(Head(parts))
         IN  IF h = "" THEN StripNonEmpty(Tail(parts)) ELSE <<h>> \o StripNonEmpty(Tail(parts))

\* re.sub(r"\s{2,}", " ", ln)
RECURSIVE CollapseSpaces(_)
CollapseSpaces(s) ==
    IF s = "" THEN ""
    ELSE LET w == SpaceRun(s, 1)
         IN  IF w >= 2 THEN " " \o CollapseSpaces(SubSeq(s, w + 1, Len(s)))
             ELSE Head(s) \o CollapseSpaces(Tail(s))

RECURSIVE MapCollapse(_)
MapCollapse(lines) ==
    IF lines = <<>> THEN <<>> ELSE <<CollapseSpaces(Head(lines))>> \o MapCollapse(Tail(lines))

\* parse_location: the stripped non-blank lines, runs of white space collapsed
NoteLines(notes) == MapCollapse(StripNonEmpty(splitlines(notes)))

\* [p.strip() for p in re.split(r"\s*,\s*", ln) if p.strip()]
CommaParts(ln) == StripNonEmpty(SplitOn(ln, {","}))

US_STATE_ABBR ==
    {"AL", "AK", "AZ", "AR", "CA", "CO", "CT", "DE", "FL", "GA", "HI", "ID", "IL", "IN", "IA",
     "KS", "KY", "LA", "ME", "MD", "MA", "MI", "MN", "MS", "MO", "MT", "NE", "NV", "NH", "NJ",
     "NM", "NY", "NC", "ND", "OH", "OK", "OR", "PA", "RI", "SC", "SD", "TN", "TX", "UT", "VT",
     "VA", "WA", "WV", "WI", "WY", "DC"}

\* a dict display keeps the last value given for a key: WA and NT are Australia
REGION_TO_COUNTRY ==
    [r \in {"ENG", "SCT", "WLS", "NIR"} |-> "United Kingdom"]
    @@ [r \in {"NSW", "VIC", "QLD", "SA", "WA", "TAS", "ACT", "NT"} |-> "Australia"]
    @@ [r \in {"AB", "BC", "MB", "NB", "NL", "NS", "NT", "NU", "ON", "PE", "QC", "SK", "YT"} |-> "Canada"]
    @@ [r \in US_STATE_ABBR |-> "USA"]

REGIONS == DOMAIN REGION_TO_COUNTRY

COUNTRY_NAMES ==
    {"United States", "USA", "US", "United Kingdom", "UK", "England", "Scotland", "Wales",
     "Germany", "France", "Spain", "Italy", "Portugal", "Netherlands", "Belgium", "Switzerland",
     "Austria", "Brazil", "Argentina", "Chile", "Mexico", "Canada", "Australia", "New Zealand",
     "Japan", "South Korea", "Norway", "Sweden", "Denmark", "Finland", "Ireland", "Poland",
     "Czech Republic", "Hungary", "Greece", "Iceland", "Luxembourg"}

\* x in COUNTRY_NAMES or x.upper() in REGION_TO_COUNTRY
\* (every key of REGION_TO_COUNTRY has at most 3 characters)
IsCountryOrRegion(x) == x \in COUNTRY_NAMES \/ (Len(x) <= 3 /\ ToUpper(x) \in REGIONS)

\* x if x in COUNTRY_NAMES else REGION_TO_COUNTRY[x.upper()]
CountryOf(x) == IF x \in COUNTRY_NAMES THEN x ELSE REGION_TO_COUNTRY[ToUpper(x)]

\* re.match of (.+?)REST$: the shortest non-empty prefix after which REST matches
\* the remainder of the string; 0 when there is none
LazyPrefix(s, RestOk(_)) ==
    LET ks == {k \in 1..(Len(s) - 1) : RestOk(SubSeq(s, k + 1, Len(s)))}
    IN  IF ks = {} THEN 0 ELSE MinOf(ks)

\* \s+([A-Z]{2,3})$
RestSpaceUpper(r) ==
    LET w == SpaceRun(r, 1)
        n == Len(r) - w
    IN  w >= 1 /\ n \in {2, 3} /\ \A k \in (w + 1)..Len(r) : IsUpper(ChAt(r, k))

\* \s*[-,]\s*([A-Za-z]{2,3})$
RestSepAlpha(r) ==
    LET w == SpaceRun(r, 1)
        w2 == SpaceRun(r, w + 2)
        n == Len(r) - (w + 1 + w2)
    IN  ChAt(r, w + 1) \in {"-", ","} /\ n \in {2, 3} /\ AllAlpha(r, w + 2 + w2, n)

\* \s+[-]\s+(.+)$
RestDashAny(r) ==
    LET w == SpaceRun(r, 1)
        w2 == SpaceRun(r, w + 2)
    IN  w >= 1 /\ ChAt(r, w + 1) = "-" /\ w2 >= 1 /\ (Len(r) > w + 1 + w2 \/ w2 >= 2)

\* the last n letters of a string that RestSepAlpha or RestSpaceUpper accepts
TrailingAlpha(s) ==
    IF AllAlpha(s, Len(s) - 2, 3) /\ Len(s) >= 3 THEN SubSeq(s, Len(s) - 2, Len(s))
    ELSE SubSeq(s, Len(s) - 1, Len(s))

\* m = re.match(r"(.+?)\s*[-,]\s*([A-Za-z]{2,3})$", x); <<group 1, group 2>> or NoMatch
CityRegionMatch(x) ==
    LET k == LazyPrefix(x, RestSepAlpha)
    IN  IF k = 0 THEN NoMatch ELSE <<SubSeq(x, 1, k), TrailingAlpha(x)>>

\* m = re.match(r"(.+?)\s+([A-Z]{2,3})$", mid); <<group 1, group 2>> or NoMatch
MidRegionMatch(x) ==
    LET k == LazyPrefix(x, RestSpaceUpper)
    IN  IF k = 0 THEN NoMatch ELSE <<SubSeq(x, 1, k), TrailingAlpha(x)>>

\* m = re.match(r"(.+?)\s+[-]\s+(.+)$", x); <<group 1, group 2>> or NoMatch
EventVenueMatch(x) ==
    LET k == LazyPrefix(x, RestDashAny)
    IN  IF k = 0 THEN NoMatch
        ELSE LET r == SubSeq(x, k + 1, Len(x))
                 w == SpaceRun(r, 1)
                 w2 == SpaceRun(r, w + 2)
                 from == IF Len(r) > w + 1 + w2 THEN w + 2 + w2 ELSE Len(r)
             IN  <<SubSeq(x, 1, k), SubSeq(r, from, Len(r))>>

RECURSIVE JoinWith(_, _)
JoinWith(parts, sep) ==
    IF parts = <<>> THEN ""
    ELSE IF Len(parts) = 1 THEN parts[1]
    ELSE parts[1] \o sep \o JoinWith(Tail(parts), sep)

Loc(venue, city, country, festival, hint) ==
    [venue |-> venue, city |-> city, country |-> country, festival |-> festival, hint |-> hint]

NoLoc == Loc("", "", "", "", "")

(***************************************************************************)
(* parse_location: the six tiers.  Each tier is the value the function     *)
(* returns from inside that tier, or NoLoc when the tier falls through.    *)
(***************************************************************************)
\* 1) the body of the loop over lines, for one line
CommaLine(ln) ==
    LET parts == CommaParts(ln)
        n == Len(parts)
    IN  IF n >= 2 /\ IsCountryOrRegion(parts[n])
        THEN LET country == CountryOf(parts[n])
             IN  IF n >= 3
                 THEN LET mid == parts[n - 1]
                          m == MidRegionMatch(mid)
                          city == IF m # NoMatch /\ ToUpper(m[2]) \in REGIONS
                                  THEN Strip(m[1]) ELSE Strip(mid)
                      IN  Loc(Strip(JoinWith(SubSeq(parts, 1, n - 2), ", ")), city, country,
                              "", "loc:comma")
                 ELSE Loc("", parts[1], country, "", "loc:comma")
        ELSE NoLoc

\* "if the tier found a location: return it", and the tiers after it otherwise
OrElse(found, otherwise) == IF found # NoLoc THEN found ELSE otherwise

\* the value of the first element for which F is not NoLoc
FirstLoc(n, F(_)) ==
    LET hits == {i \in 1..n : F(i) # NoLoc}
    IN  IF hits = {} THEN NoLoc ELSE F(MinOf(hits))

CommaTier(lines) == FirstLoc(Len(lines), LAMBDA i : CommaLine(lines[i]))

\* 2) the body of the loop over i, for the lines a, b, c
StackAt(a, b, c) ==
    IF IsCountryOrRegion(c)
    THEN LET m == CityRegionMatch(b)
             b_city == IF m # NoMatch /\ ToUpper(m[2]) \in REGIONS THEN Strip(m[1]) ELSE b
         IN  Loc(a, b_city, CountryOf(c), "", "loc:stack")
    ELSE NoLoc

StackTier(lines) ==
    FirstLoc(Len(lines) - 2, LAMBDA i : StackAt(lines[i], lines[i + 1], lines[i + 2]))

\* 3) the body of the loop over i, for the line and the one after it
EventLineOf(m, m2, parts) ==
    IF m = NoMatch THEN NoLoc
    ELSE IF m2 # NoMatch /\ ToUpper(m2[2]) \in REGIONS
    THEN Loc(Strip(m[2]), Strip(m2[1]), REGION_TO_COUNTRY[ToUpper(m2[2])], Strip(m[1]),
             "loc:eventline")
    ELSE IF Len(parts) = 2 /\ IsCountryOrRegion(parts[2])
    THEN Loc(Strip(m[2]), parts[1], CountryOf(parts[2]), Strip(m[1]), "loc:eventline")
    ELSE NoLoc

\* m is the match of "event - venue" on the line, m2 and parts what the
\* line after it gives
EventLineAt(ln, nxt) == EventLineOf(EventVenueMatch(ln), CityRegionMatch(nxt), CommaParts(nxt))

EventLineTier(lines) ==
    FirstLoc(Len(lines) - 1, LAMBDA i : EventLineAt(lines[i], lines[i + 1]))

\* 4) the body of the loop over lines, for one line
CityLine(ln) ==
    LET m == CityRegionMatch(ln)
        parts == CommaParts(ln)
    IN  IF m # NoMatch /\ ToUpper(m[2]) \in REGIONS
        THEN Loc("", Strip(m[1]), REGION_TO_COUNTRY[ToUpper(m[2])], "", "loc:cityregion")
        ELSE IF Len(parts) = 2 /\ IsCountryOrRegion(parts[2])
        THEN Loc("", parts[1], CountryOf(parts[2]), "", "loc:citycountry")
        ELSE NoLoc

CityTier(lines) == FirstLoc(Len(lines), LAMBDA i : CityLine(lines[i]))

\* \b\d{4}[-_]\d{2}[-_]\d{2}\b\s+(.+) at position i: group 1, or NoMatch
FolderDateAt(s, i) ==
    IF ~(/\ IsDigit(ChAt(s, i)) /\ WordBoundary(s, i) /\ AllDigits(s, i, 4)
         /\ ChAt(s, i + 4) \in {"-", "_"} /\ AllDigits(s, i + 5, 2)
         /\ ChAt(s, i + 7) \in {"-", "_"} /\ AllDigits(s, i + 8, 2))
    THEN NoMatch
    ELSE LET w == SpaceRun(s, i + 10)
         IN  IF w >= 1 /\ i + 10 + w <= Len(s) THEN <<SubSeq(s, i + 10 + w, Len(s))>>
             ELSE IF w >= 2 THEN <<SubSeq(s, Len(s), Len(s))>>
             ELSE NoMatch

\* _SEP without the en and em dashes: [,\-|]\s*
SepChars == {",", "-", "|"}

\* 5) _folder_name_loc_fallback, as the value parse_location makes of it
folder_name_loc_fallback(folder_name) ==
    LET m == Search(FolderDateAt, folder_name)
        cand == IF m # NoMatch THEN Strip(m[1]) ELSE folder_name
        parts == StripNonEmpty(SplitOn(cand, SepChars))
    IN  IF Len(parts) >= 3 THEN Loc(parts[1], parts[2], parts[3], "", "loc:folder")
        ELSE IF Len(parts) = 2 THEN Loc(parts[1], parts[2], "", "", "loc:folder")
        ELSE NoLoc

FESTIVAL_KEYWORDS ==
    <<"Festival", "Rockpalast", "Lollapalooza", "Glastonbury", "Reading", "Leeds", "Bonnaroo",
      "Primavera", "Big Day Out", "Splendour in the Grass">>

FESTIVAL_KEYWORDS_LOWER == [k \in 1..Len(FESTIVAL_KEYWORDS) |-> ToLower(FESTIVAL_KEYWORDS[k])]

\* \b(Festival|...)\b with re.IGNORECASE at position i: <<group 1>> or NoMatch
FestivalAt(s, i) ==
    IF ~(IsAlpha(ChAt(s, i)) /\ WordBoundary(s, i)) THEN NoMatch
    ELSE LET ok(kw) == /\ i + Len(kw) - 1 <= Len(s)
                       /\ \A j \in 1..Len(kw) : LowerCh(ChAt(s, i + j - 1)) = ChAt(kw, j)
                       /\ WordBoundary(s, i + Len(kw))
             k == FirstOk(FESTIVAL_KEYWORDS_LOWER, ok)
         IN  IF k = 0 THEN NoMatch ELSE <<SubSeq(s, i, i + Len(FESTIVAL_KEYWORDS[k]) - 1)>>

\* 6) the festival keyword fallback
FestivalTier(notes) ==
    LET m == Search(FestivalAt, notes)
    IN  IF m # NoMatch THEN Loc("", "", "", m[1], "") ELSE NoLoc

\* a plausible slip: the festival keyword scan made before the other tiers
parse_location_festival_first(notes, folder_name) ==
    IF notes = "" THEN folder_name_loc_fallback(folder_name)
    ELSE OrElse(FestivalTier(notes),
         OrElse(CommaTier(NoteLines(notes)),
         OrElse(StackTier(NoteLines(notes)),
         OrElse(EventLineTier(NoteLines(notes)),
         OrElse(CityTier(NoteLines(notes)),
                folder_name_loc_fallback(folder_name))))))

parse_location(notes, folder_name) ==
    IF notes = "" THEN folder_name_loc_fallback(folder_name)
    ELSE OrElse(CommaTier(NoteLines(notes)),
         OrElse(StackTier(NoteLines(notes)),
         OrElse(EventLineTier(NoteLines(notes)),
         OrElse(CityTier(NoteLines(notes)),
         OrElse(folder_name_loc_fallback(folder_name),
                FestivalTier(notes))))))

(***************************************************************************)
(* Harness for guess_date: the text is any concatenation of at most        *)
(* MaxDateFrags fragments.                                                 *)
(***************************************************************************)
MaxDateFrags == 3

DateFragments ==
    {"25-12-2023", "03-04-2023", "2023-12-25", "12.31.99", "1/2/123", "2024-1-5",
     "Dec 25, 2023", "Foo 1 2000", " ", "x", "7", "-"}

RECURSIVE Concats(_, _)
Concats(frags, n) ==
    IF n = 0 THEN {""}
    ELSE LET shorter == Concats(frags, n - 1)
         IN  shorter \cup {t \o f : t \in shorter, f \in frags}

DateTexts == Concats(DateFragments, MaxDateFrags)

InitDate ==
    /\ fn = "guess_date"
    /\ arg \in DateTexts
    /\ res = ""
    /\ returned = FALSE
    /\ WalkIdle
    /\ ShotIdle

CallGuessDate ==
    /\ fn = "guess_date"
    /\ ~returned
    /\ res' = guess_date(arg)
    /\ returned' = TRUE
    /\ UNCHANGED <<fn, arg>>
    /\ UNCHANGED <<wvars, svars>>

NextDate == CallGuessDate

SpecDate == InitDate /\ [][NextDate]_vars

(***************************************************************************)
(* Harness for parse_location: the notes are at most MaxNoteLines lines    *)
(* of LocLines joined by newlines; the folder name is one of LocFolders.   *)
(***************************************************************************)
MaxNoteLines == 4

LocLines ==
    {"Zilker Park", "Austin - TX", "Austin, TX", "USA", "Rock Festival",
     "Big Show - The Forum", ""}

LocFolders == {"muse", "2006-07-01 Forum - Inglewood"}

RECURSIVE LineSeqs(_, _)
LineSeqs(menu, n) ==
    IF n = 0 THEN {<<>>}
    ELSE LET shorter == LineSeqs(menu, n - 1)
         IN  shorter \cup {Append(t, l) : t \in shorter, l \in menu}

LocNotes == {JoinWith(ls, "\n") : ls \in LineSeqs(LocLines, MaxNoteLines)}

InitLoc ==
    /\ fn = "parse_location"
    /\ arg \in {<<n, f>> : n \in LocNotes, f \in LocFolders}
    /\ res = NoLoc
    /\ returned = FALSE
    /\ WalkIdle
    /\ ShotIdle

CallParseLocation ==
    /\ fn = "parse_location"
    /\ ~returned
    /\ res' = parse_location(arg[1], arg[2])
    /\ returned' = TRUE
    /\ UNCHANGED <<fn, arg>>
    /\ UNCHANGED <<wvars, svars>>

NextLoc == CallParseLocation

SpecLoc == InitLoc /\ [][NextLoc]_vars

(***************************************************************************)
(* The folder tree.  A node is a directory (with its entries in the order  *)
(* the operating system lists them) or a file (with its bytes).  A path is *)
(* the sequence of names from the top of the tree.  A directory or file    *)
(* that is not readable makes listing or opening it raise PermissionError. *)
(***************************************************************************)
Dir(n, es) ==
    [name |-> n, exists |-> TRUE, is_dir |-> TRUE, readable |-> TRUE, entries |-> es, data |-> ""]

File(n, d) ==
    [name |-> n, exists |-> TRUE, is_dir |-> FALSE, readable |-> TRUE, entries |-> <<>>, data |-> d]

Locked(node) == [node EXCEPT !.readable = FALSE]

NoNode ==
    [name |-> "", exists |-> FALSE, is_dir |-> FALSE, readable |-> FALSE, entries |-> <<>>, data |-> ""]

\* the entry of a directory node with the given name
ChildNode(node, n) ==
    IF \E i \in 1..Len(node.entries) : node.entries[i].name = n
    THEN node.entries[CHOOSE i \in 1..Len(node.entries) : node.entries[i].name = n]
    ELSE NoNode

RECURSIVE Descend(_, _)
Descend(node, p) ==
    IF p = <<>> THEN node
    ELSE IF ~node.is_dir THEN NoNode
    ELSE Descend(ChildNode(node, Head(p)), Tail(p))

NodeAt(p) == Descend(fs, p)

\* Path.exists(), Path.is_dir(), Path.is_file()
Exists(p) == NodeAt(p).exists

IsDir(p) == NodeAt(p).exists /\ NodeAt(p).is_dir

IsFile(p) == NodeAt(p).exists /\ ~NodeAt(p).is_dir

\* os.scandir / Path.iterdir succeed on p
CanList(p) == IsDir(p) /\ NodeAt(p).readable

\* Path.iterdir(): the children of p in listing order
IterDir(p) ==
    [i \in 1..Len(NodeAt(p).entries) |-> Append(p, NodeAt(p).entries[i].name)]

\* Path.name
PathName(p) == IF p = <<>> THEN "" ELSE p[Len(p)]

\* Path.parent
PathParent(p) == IF p = <<>> THEN <<>> ELSE SubSeq(p, 1, Len(p) - 1)

\* str(path)
RECURSIVE PathStr(_)
PathStr(p) == IF p = <<>> THEN "" ELSE PathStr(PathParent(p)) \o "/" \o PathName(p)

\* q is p or lies below p
IsPrefix(p, q) == Len(p) <= Len(q) /\ SubSeq(q, 1, Len(p)) = p

\* str.rfind(c): the last position of c in s, 0 when absent
RECURSIVE RFind(_, _)
RFind(s, c) ==
    IF s = "" THEN 0
    ELSE IF ChAt(s, Len(s)) = c THEN Len(s)
    ELSE RFind(SubSeq(s, 1, Len(s) - 1), c)

\* PurePath.suffix of a file name
Suffix(n) ==
    LET i == RFind(n, ".")
    IN  IF 1 < i /\ i < Len(n) THEN SubSeq(n, i, Len(n)) ELSE ""

VIDEO_EXTS ==
    {".vob", ".ts", ".mpg", ".mpeg", ".m2ts", ".mp4", ".m4v", ".avi", ".mov", ".mkv", ".wmv"}

\* p.is_file() and p.suffix.lower() in VIDEO_EXTS
IsVideoFile(p) == IsFile(p) /\ ToLower(Suffix(PathName(p))) \in VIDEO_EXTS

\* f.is_file() and f.suffix.lower() == ".vob"
IsVobFile(p) == IsFile(p) /\ ToLower(Suffix(PathName(p))) = ".vob"

(***************************************************************************)
(* The folder classifier.  _video_ts_present, _has_direct_video_files and  *)
(* is_show_folder return <<value, raised>>: raised records that an         *)
(* exception was thrown, and swallowed, while they looked at the folder.   *)
(***************************************************************************)
\* the loop of _video_ts_present over dirpath.iterdir(), from child i on
RECURSIVE VideoTsFrom(_, _)
VideoTsFrom(kids, i) ==
    IF i > Len(kids) THEN <<FALSE, FALSE>>
    ELSE IF IsDir(kids[i]) /\ ToLower(PathName(kids[i])) = "video_ts"
         THEN IF ~CanList(kids[i]) THEN <<FALSE, TRUE>>
              ELSE IF \E j \in 1..Len(IterDir(kids[i])) : IsVobFile(IterDir(kids[i])[j])
                   THEN <<TRUE, FALSE>>
                   ELSE VideoTsFrom(kids, i + 1)
         ELSE VideoTsFrom(kids, i + 1)

video_ts_present(dirpath) ==
    IF ~CanList(dirpath) THEN <<FALSE, TRUE>>
    ELSE VideoTsFrom(IterDir(dirpath), 1)

has_direct_video_files(dirpath) ==
    IF ~CanList(dirpath) THEN <<FALSE, TRUE>>
    ELSE <<\E i \in 1..Len(IterDir(dirpath)) : IsVideoFile(IterDir(dirpath)[i]), FALSE>>

child_looks_like_show(child) ==
    \/ video_ts_present(child)[1]
    \/ CanList(child) /\ \E i \in 1..Len(IterDir(child)) : IsVideoFile(IterDir(child)[i])

\* the child directories of folder that look like shows, in listing order
ChildShowDirs(folder) ==
    SelectSeq(IterDir(folder), LAMBDA c : IsDir(c) /\ child_looks_like_show(c))

is_show_folder(folder) ==
    LET v == video_ts_present(folder)
        d == has_direct_video_files(folder)
    IN  IF v[1] THEN <<TRUE, v[2]>>
        ELSE IF ~CanList(folder) THEN <<FALSE, TRUE>>
        ELSE IF Len(ChildShowDirs(folder)) >= 2 THEN <<FALSE, v[2] \/ d[2]>>
        ELSE <<d[1], v[2] \/ d[2]>>

(***************************************************************************)
(* Recursive listing, note collection and the representative media.        *)
(***************************************************************************)
\* folder.rglob("*"): the entries of folder, then those of each of its
\* subdirectories in listing order, recursively; an unreadable directory
\* contributes nothing
RECURSIVE RGlob(_)
RECURSIVE RGlobBelow(_, _)
RGlob(d) == IF ~CanList(d) THEN <<>> ELSE IterDir(d) \o RGlobBelow(IterDir(d), 1)

RGlobBelow(kids, i) ==
    IF i > Len(kids) THEN <<>>
    ELSE (IF IsDir(kids[i]) THEN RGlob(kids[i]) ELSE <<>>) \o RGlobBelow(kids, i + 1)

\* str(p.relative_to(folder))
RelStr(p, folder) == JoinWith(SubSeq(p, Len(folder) + 1, Len(p)), "/")

\* ord(c) for the characters of names and notes (code points 32..95 and 97..126)
ASCII_LOW ==
    " !\"#$%&'()*+,-./0123456789:;<=>?@ABCDEFGHIJKLMNOPQRSTUVWXYZ[\\]^_"

ASCII_HIGH == "abcdefghijklmnopqrstuvwxyz{|}~"

Ord(c) ==
    IF c = "\t" THEN 9
    ELSE IF c = "\n" THEN 10
    ELSE IF c \in CharsOf(ASCII_HIGH) THEN 96 + IndexIn(ASCII_HIGH, c)
    ELSE 31 + IndexIn(ASCII_LOW, c)

\* s < t for Python strings
RECURSIVE StrLess(_, _)
StrLess(s, t) ==
    IF t = "" THEN FALSE
    ELSE IF s = "" THEN TRUE
    ELSE IF Head(s) = Head(t) THEN StrLess(Tail(s), Tail(t))
    ELSE Ord(Head(s)) < Ord(Head(t))

\* list.sort / sorted: a stable sort; Before(a, b) is key(a) < key(b).  The
\* element at position i moves behind every element with a smaller key and
\* every earlier element with an equal key.
StableSort(xs, Before(_, _)) ==
    LET n == Len(xs)
        ahead(i) == {j \in 1..n : \/ Before(xs[j], xs[i])
                                  \/ j < i /\ ~Before(xs[i], xs[j])}
    IN  [k \in 1..n |-> xs[CHOOSE i \in 1..n : Cardinality(ahead(i)) = k - 1]]

TEXT_EXTS == {".txt", ".nfo", ".docx", ".doc", ".rtf"}

INFO_DIR_HINTS == {"info", "nfo", "notes", "docs", "documentation", "about"}

\* score of a text file: 1 when a directory between folder and it is an info directory
NoteScore(p, folder) ==
    IF \E i \in (Len(folder) + 1)..(Len(p) - 1) : ToLower(p[i]) \in INFO_DIR_HINTS THEN 1 ELSE 0

\* texts.sort(key=lambda t: (-t[0], str(t[1])))
NoteBefore(folder, a, b) ==
    \/ NoteScore(a, folder) > NoteScore(b, folder)
    \/ NoteScore(a, folder) = NoteScore(b, folder) /\ StrLess(PathStr(a), PathStr(b))

\* safe_read_text, on a machine without the .doc/.docx/.rtf converters
safe_read_text(p) ==
    IF ToLower(Suffix(PathName(p))) \in {".txt", ".nfo"} /\ NodeAt(p).readable
    THEN NodeAt(p).data
    ELSE ""

RECURSIVE NoteChunks(_, _, _)
NoteChunks(texts, i, folder) ==
    IF i > Len(texts) THEN <<>>
    ELSE LET t == Strip(safe_read_text(texts[i]))
         IN  (IF t # "" THEN <<"\n---- " \o RelStr(texts[i], folder) \o " ----\n" \o t>> ELSE <<>>)
             \o NoteChunks(texts, i + 1, folder)

RECURSIVE NoteWarnings(_, _)
NoteWarnings(texts, i) ==
    IF i > Len(texts) THEN <<>>
    ELSE (IF Strip(safe_read_text(texts[i])) = ""
          THEN <<"Could not parse text from " \o PathName(texts[i])>> ELSE <<>>)
         \o NoteWarnings(texts, i + 1)

\* the text files under folder in the order collect_notes reads them
NoteFiles(folder) ==
    StableSort(SelectSeq(RGlob(folder),
                         LAMBDA p : IsFile(p) /\ ToLower(Suffix(PathName(p))) \in TEXT_EXTS),
               LAMBDA a, b : NoteBefore(folder, a, b))

\* a plausible slip: a file that cannot be read ends the whole collection in
\* the handler around the loop, which returns ""
collect_notes_aborting(folder) ==
    LET texts == NoteFiles(folder)
    IN  IF \E i \in 1..Len(texts) : ~NodeAt(texts[i]).readable THEN <<"", <<>>>>
        ELSE <<Strip(JoinWith(NoteChunks(texts, 1, folder), "\n")), NoteWarnings(texts, 1)>>

\* collect_notes: <<the note blob, the warnings it appended>>
collect_notes(folder) ==
    LET texts == NoteFiles(folder)
    IN  <<Strip(JoinWith(NoteChunks(texts, 1, folder), "\n")), NoteWarnings(texts, 1)>>

\* re.match(r'(?i)^(VTS_\d{2})_\d+\.VOB$', name)
IsVtsSegment(n) ==
    /\ Len(n) >= 12
    /\ ToUpper(SubSeq(n, 1, 4)) = "VTS_"
    /\ AllDigits(n, 5, 2)
    /\ ChAt(n, 7) = "_"
    /\ AllDigits(n, 8, Len(n) - 11)
    /\ ToUpper(SubSeq(n, Len(n) - 3, Len(n))) = ".VOB"

\* m.group(1).upper(): the title group of a segment
VtsKey(n) == ToUpper(SubSeq(n, 1, 6))

\* int(re.search(r'_(\d+)\.VOB$', name, re.IGNORECASE).group(1))
VtsIndex(n) == StrToNat(SubSeq(n, 8, Len(n) - 4))

\* p.stat().st_size
SizeOf(p) == Len(NodeAt(p).data)

RECURSIVE SumSizes(_)
SumSizes(ps) == IF ps = <<>> THEN 0 ELSE SizeOf(Head(ps)) + SumSizes(Tail(ps))

\* the first directory named video_ts (in any case) that rglob meets; <<>> when none
VtsDir(folder) ==
    LET hits == SelectSeq(RGlob(folder), LAMBDA p : IsDir(p) /\ ToLower(PathName(p)) = "video_ts")
    IN  IF hits = <<>> THEN <<>> ELSE hits[1]

\* the keys of groups in insertion order: each title group at its first segment
RECURSIVE GroupKeys(_, _)
GroupKeys(segs, i) ==
    IF i > Len(segs) THEN <<>>
    ELSE (IF \E j \in 1..(i - 1) : VtsKey(PathName(segs[j])) = VtsKey(PathName(segs[i]))
          THEN <<>> ELSE <<VtsKey(PathName(segs[i]))>>)
         \o GroupKeys(segs, i + 1)

\* groups[k] as setdefault/append leaves it: in the order of the directory listing
GroupFilesUnsorted(segs, k) == SelectSeq(segs, LAMBDA p : VtsKey(PathName(p)) = k)

\* groups[k] after sorting by segment index
GroupFiles(segs, k) ==
    StableSort(SelectSeq(segs, LAMBDA p : VtsKey(PathName(p)) = k),
               LAMBDA a, b : VtsIndex(PathName(a)) < VtsIndex(PathName(b)))

\* the loop that keeps the first group whose total size exceeds every earlier one
RECURSIVE BestKey(_, _, _, _, _)
BestKey(segs, keys, i, best_key, best_total) ==
    IF i > Len(keys) THEN best_key
    ELSE LET total == SumSizes(GroupFiles(segs, keys[i]))
         IN  IF total > best_total THEN BestKey(segs, keys, i + 1, keys[i], total)
             ELSE BestKey(segs, keys, i + 1, best_key, best_total)

\* dvd_group_segments: <<the segments, raised>>; listing an unreadable
\* VIDEO_TS directory raises PermissionError
dvd_group_segments(folder) ==
    LET vts_dir == VtsDir(folder)
    IN  IF vts_dir = <<>> THEN <<<<>>, FALSE>>
        ELSE IF ~CanList(vts_dir) THEN <<<<>>, TRUE>>
        ELSE LET vobs == SelectSeq(IterDir(vts_dir), IsVobFile)
                 segs == SelectSeq(vobs, LAMBDA p : IsVtsSegment(PathName(p)))
                 best == BestKey(segs, GroupKeys(segs, 1), 1, "", -1)
             IN  <<IF best = "" THEN <<>> ELSE GroupFiles(segs, best), FALSE>>

\* the loop of representative_media that keeps the first largest video file
RECURSIVE BestVideo(_, _, _)
BestVideo(ps, best, best_size) ==
    IF ps = <<>> THEN best
    ELSE IF IsVideoFile(Head(ps)) /\ SizeOf(Head(ps)) > best_size
         THEN BestVideo(Tail(ps), Head(ps), SizeOf(Head(ps)))
         ELSE BestVideo(Tail(ps), best, best_size)

\* representative_media: <<rep_files, container, raised>>
\* the choice between dvd, the outcome of dvd_group_segments, and best, the
\* largest video file under the folder
MediaOf(dvd, best) ==
    IF dvd[2] THEN <<<<>>, "", TRUE>>
    ELSE IF dvd[1] # <<>> THEN <<dvd[1], ".vob", FALSE>>
    ELSE IF best = <<>> THEN <<<<>>, "", FALSE>>
    ELSE <<<<best>>, ToLower(Suffix(PathName(best))), FALSE>>

representative_media(folder) ==
    MediaOf(dvd_group_segments(folder), BestVideo(RGlob(folder), <<>>, 0))

\* hashlib.sha1(...).hexdigest() as a collision-free function of the bytes
Sha1Hex(bytes) == "sha1(" \o bytes \o ")"

RECURSIVE AllBytes(_)
AllBytes(ps) == IF ps = <<>> THEN "" ELSE NodeAt(Head(ps)).data \o AllBytes(Tail(ps))

\* a plausible slip: a file that cannot be opened is passed over
sha1_of_files_skipping_unreadable(paths) ==
    Sha1Hex(AllBytes(SelectSeq(paths, LAMBDA p : IsFile(p) /\ NodeAt(p).readable)))

\* "" as soon as one file cannot be opened, else the digest of all bytes in order
sha1_of_files_in_order(paths) ==
    IF \E i \in 1..Len(paths) : ~(IsFile(paths[i]) /\ NodeAt(paths[i]).readable) THEN ""
    ELSE Sha1Hex(AllBytes(paths))

\* a plausible slip: the identifier salted with the time of the scan
normalize_show_id_timestamped(folder_path) == Sha1Hex(PathStr(folder_path) \o NatToStr(clock))

\* the first 12 digits of the digest of str(folder_path), still collision-free
normalize_show_id(folder_path) == Sha1Hex(PathStr(folder_path))

\* now_iso()
now_iso == clock

(***************************************************************************)
(* Artist detection and the event line.                                    *)
(***************************************************************************)
BAND_NAMES ==
    <<"30 Seconds to Mars", "Aerosmith", "Alanis Morissette", "Alice In Chains",
      "Arctic Monkeys", "Army of Anyone", "Ash", "Audioslave", "Beastie Boys", "Beck",
      "Ben Harper & The Innocent Criminals", "Billy Corgan", "Black Crowes", "Blind Melon",
      "Blink 182", "Bloodhound Gang", "Blur", "Bon Jovi",
      "Bruce Springsteen & the E Street Band", "Bush", "The Cardigans", "The Cars",
      "Cat Stevens", "Chris Cornell", "Coldplay", "Counting Crows", "Creed",
      "Creedence Clearwater Revival", "Crowded House", "The Dandy Warhols", "Dave Navarro",
      "Deep Purple", "Deftones", "Dire Straits", "Editors", "Erykah Badu", "Everclear",
      "Evermore", "Faith No More", "The Feelers", "Filter", "Flight Of The Conchords",
      "Fly My Pretties", "Foo Fighters", "Franz Ferdinand", "The Fray", "Fu Manchu", "Fuel",
      "Fun Lovin' Criminals", "Green Day", "Grinspoon", "Guns N' Roses", "Hed PE", "Hole",
      "Incubus", "Jamiroquai", "Jane's Addiction", "Jay-Z", "Jeff Buckley", "Jessica Mauboy",
      "Jet", "John Butler Trio", "John Fogerty", "Kaiser Chiefs", "Kanye West",
      "Kelly Jones", "The Killers", "Kings Of Leon", "The Kinks", "Kiss", "Korn",
      "KT Tunstall", "Lady Gaga", "Ladyhawke", "Led Zeppelin", "Lenny Kravitz",
      "Limp Bizkit", "Live", "Manic Street Preachers", "Marcy Playground", "Marilyn Manson",
      "The Mars Volta", "Mercury Crowe", "Metallica", "Michael Jackson", "Millencolin",
      "Moby", "Motörhead", "Muse", "Nickelback", "Nirvana", "Oasis", "The Offspring", "Orgy",
      "Our Lady Peace", "Papa Roach", "Pearl Jam", "A Perfect Circle", "The Police",
      "Portishead", "Powderfinger", "Presidents of the United States of America", "Prodigy",
      "Queen", "Queens of the Stone Age", "Queensrÿche", "R.E.M.", "The Raconteurs",
      "Radiohead", "Rage Against the Machine", "Red Hot Chili Peppers", "Rob Zombie",
      "Rolling Stones", "Scott Weiland", "Sheryl Crow", "Shihad", "Sia", "Silverchair",
      "Smashing Pumpkins", "Snoop Dogg", "Soundgarden", "Spiritualized", "Staind",
      "Steppenwolf", "Stereophonics", "Stone Temple Pilots", "The Strokes", "Sum 41",
      "Supergrass", "Them Crooked Vultures", "Third Eye Blind", "Tool", "Train", "U2",
      "Velvet Revolver", "The Verve", "The Vines", "Weezer", "White Stripes", "Wolfmother",
      "Zwan", "ZZ Top">>

\* BAND_ALIASES: its keys, and the canonical name of each
BAND_ALIAS_KEYS ==
    <<"RHCP", "QOTSA", "REM", "STP", "POTUSA", "TPOTUSA", "GNR">>

BAND_ALIAS_NAMES ==
    <<"Red Hot Chili Peppers", "Queens of the Stone Age", "R.E.M.", "Stone Temple Pilots",
      "Presidents of the United States of America",
      "Presidents of the United States of America", "Guns N' Roses">>

\* _norm_apos (of its three apostrophes the one that text of the model can
\* hold) and _norm_punct
NORM_APOS == {"'"}

NORM_PUNCT == {" ", "\n", "\t", "-", "_", ".", ",", ":", ";", "!", "/", "\\"}

\* _normalize_for_match of the characters a..b of s, one half after the other:
\* <<separators in front of the text, the text, separators behind the text>>.
\* Apostrophes vanish, a run of separators between two kept characters becomes
\* one blank, and separators at either end are dropped.
RECURSIVE NormPiece(_, _, _)
NormPiece(s, a, b) ==
    IF a = b
    THEN LET c == LowerCh(ChAt(s, a))
         IN  IF c \in NORM_APOS THEN <<FALSE, "", FALSE>>
             ELSE IF c \in NORM_PUNCT THEN <<TRUE, "", TRUE>>
             ELSE <<FALSE, c, FALSE>>
    ELSE LET x == NormPiece(s, a, (a + b) \div 2)
             y == NormPiece(s, (a + b) \div 2 + 1, b)
         IN  << x[1] \/ (x[2] = "" /\ y[1]),
                IF x[2] = "" THEN y[2]
                ELSE IF y[2] = "" THEN x[2]
                ELSE x[2] \o (IF x[3] \/ y[1] THEN " " ELSE "") \o y[2],
                y[3] \/ (y[2] = "" /\ x[3]) >>

normalize_for_match(s) == IF s = "" THEN "" ELSE NormPiece(s, 1, Len(s))[2]

BAND_NORMS == [k \in 1..Len(BAND_NAMES) |-> normalize_for_match(BAND_NAMES[k])]

\* _compile_band_patterns: <<name, its normal form>>, longest normal form first
BAND_PATTERNS ==
    LET names == BAND_NAMES \o BAND_ALIAS_KEYS
        pairs == [k \in 1..Len(names) |-> <<names[k], normalize_for_match(names[k])>>]
    IN  StableSort(pairs, LAMBDA a, b : Len(a[2]) > Len(b[2]))

\* pat.search(hay) for the pattern \btok\s+tok...\b of a normal form
PatternFound(norm, hay) ==
    \E i \in 1..(Len(hay) - Len(norm) + 1) :
        /\ ChAt(hay, i) = ChAt(norm, 1)
        /\ SubSeq(hay, i, i + Len(norm) - 1) = norm
        /\ WordBoundary(hay, i)
        /\ WordBoundary(hay, i + Len(norm))

\* BAND_ALIASES.get(key, key)
AliasOf(key) ==
    IF \E k \in 1..Len(BAND_ALIAS_KEYS) : BAND_ALIAS_KEYS[k] = key
    THEN BAND_ALIAS_NAMES[CHOOSE k \in 1..Len(BAND_ALIAS_KEYS) : BAND_ALIAS_KEYS[k] = key]
    ELSE key

\* a plausible slip: the names searched in the order of the list, unsorted
search_first_listed(hay) ==
    IF hay = "" THEN ""
    ELSE LET names == BAND_NAMES \o BAND_ALIAS_KEYS
             hits == {k \in 1..Len(names) : PatternFound(normalize_for_match(names[k]), hay)}
         IN  IF hits = {} THEN "" ELSE AliasOf(names[MinOf(hits)])

\* search_longest: "" stands for None
search_longest(hay) ==
    IF hay = "" THEN ""
    ELSE LET hits == {k \in 1..Len(BAND_PATTERNS) : PatternFound(BAND_PATTERNS[k][2], hay)}
         IN  IF hits = {} THEN "" ELSE AliasOf(BAND_PATTERNS[MinOf(hits)][1])

\* 1) the first path segment whose normal form is that of a canonical name
ExactSegment(folder) ==
    LET hits == {i \in 1..Len(folder) :
                    \E k \in 1..Len(BAND_NAMES) : BAND_NORMS[k] = normalize_for_match(folder[i])}
    IN  IF hits = {} THEN ""
        ELSE BAND_NAMES[CHOOSE k \in 1..Len(BAND_NAMES) :
                            BAND_NORMS[k] = normalize_for_match(folder[MinOf(hits)])]

resolve_artist(folder, notes) ==
    LET exact == ExactSegment(folder)
        in_folder == search_longest(normalize_for_match(PathName(folder)))
        in_parent == search_longest(normalize_for_match(PathName(PathParent(folder))))
        in_notes == search_longest(normalize_for_match(notes))
        parent == Strip(PathName(PathParent(folder)))
    IN  IF exact # "" THEN exact
        ELSE IF in_folder # "" THEN in_folder
        ELSE IF in_parent # "" THEN in_parent
        ELSE IF in_notes # "" THEN in_notes
        ELSE IF parent # "" /\ ToLower(parent) \notin {"video_ts", "audio_ts"} THEN parent
        ELSE PathName(folder)

EVENT_KEYWORDS == <<"concert", "festival", "live", "rockpalast", "tour", "show">>

\* re.search(r'(concert|festival|live|rockpalast|tour|show)', ln, re.IGNORECASE)
HasEventKeyword(ln) ==
    \E k \in 1..Len(EVENT_KEYWORDS) : \E i \in 1..(Len(ln) - Len(EVENT_KEYWORDS[k]) + 1) :
        ToLower(SubSeq(ln, i, i + Len(EVENT_KEYWORDS[k]) - 1)) = EVENT_KEYWORDS[k]

\* re.search(r'\s[-]\s', ln)
HasSpacedDash(ln) ==
    \E i \in 1..(Len(ln) - 2) : IsSpace(ChAt(ln, i)) /\ ChAt(ln, i + 1) = "-" /\ IsSpace(ChAt(ln, i + 2))

\* the loop of extract_event_and_split_venue from line i on
RECURSIVE EventFrom(_, _, _)
EventFrom(lines, i, existing_venue) ==
    IF i > Len(lines) THEN <<"", "", "">>
    ELSE LET ln == Strip(lines[i])
             m == EventVenueMatch(ln)
         IN  IF ln # "" /\ HasEventKeyword(ln) /\ HasSpacedDash(ln) /\ m # NoMatch
             THEN <<Strip(m[1]), IF existing_venue = "" THEN Strip(m[2]) ELSE "", "evt:eventline">>
             ELSE EventFrom(lines, i + 1, existing_venue)

\* a plausible slip: the venue of the event line taken whatever venue there is
extract_event_overriding_venue(notes, existing_venue) ==
    IF notes = "" THEN <<"", "", "">>
    ELSE EventFrom(splitlines(notes), 1, "")

\* extract_event_and_split_venue: <<event, venue_override, hint>>
extract_event_and_split_venue(notes, existing_venue) ==
    IF notes = "" THEN <<"", "", "">>
    ELSE EventFrom(splitlines(notes), 1, existing_venue)

(***************************************************************************)
(* scan_roots.                                                             *)
(***************************************************************************)
EXCLUDED == {"video_ts", "audio_ts", "info", "nfo", "docs", "artwork", "extras"}

\* a plausible slip: the name compared as it is spelled
IsExcludedAsSpelled(fpath) == PathName(fpath) \in EXCLUDED

\* fpath.name.lower() in _excluded
IsExcluded(fpath) == ToLower(PathName(fpath)) \in EXCLUDED

\* os.walk: dirnames, the subdirectories of dirpath in listing order
DirNames(dirpath) == SelectSeq(IterDir(dirpath), IsDir)

\* os.walk: filenames, the other entries
FileNames(dirpath) == SelectSeq(IterDir(dirpath), LAMBDA p : ~IsDir(p))

\* os.walk yields only the directories it can list: the others are dropped
\* without a word (onerror is None)
Walkable(dirnames) == SelectSeq(dirnames, CanList)

\* the loose video files of a directory that is not a show
LooseFiles(dirpath) == SelectSeq(FileNames(dirpath), IsVideoFile)

\* build_row_for_loose_file is defined nowhere in the program: the call
\* raises NameError, which the handler around it swallows
NameError == "NameError"

build_row_for_loose_file(lf) == NameError

\* the loop over loose: <<rows, seen_ids>> after it
RECURSIVE LooseLoop(_, _, _, _)
LooseLoop(loose, i, rs, seen) ==
    IF i > Len(loose) THEN <<rs, seen>>
    ELSE LET row == build_row_for_loose_file(loose[i])
         IN  IF row = NameError THEN LooseLoop(loose, i + 1, rs, seen)
             ELSE IF row.ShowID \notin seen
             THEN LooseLoop(loose, i + 1, Append(rs, row), seen \cup {row.ShowID})
             ELSE LooseLoop(loose, i + 1, rs, seen)

(***************************************************************************)
(* determine_recording_type, determine_generation.                         *)
(***************************************************************************)
\* sub occurs in s at position i
StartsAt(s, i, sub) ==
    i >= 1 /\ i + Len(sub) - 1 <= Len(s) /\ SubSeq(s, i, i + Len(sub) - 1) = sub

\* re.search of an alternation of literals
ContainsAny(s, words) == \E i \in 1..Len(s) : \E w \in words : StartsAt(s, i, w)

\* the length of the run of digits that starts at position i
RECURSIVE DigitRun(_, _)
DigitRun(s, i) == IF IsDigit(ChAt(s, i)) THEN 1 + DigitRun(s, i + 1) ELSE 0

\* s[:n]
Take(s, n) == IF Len(s) <= n THEN s ELSE SubSeq(s, 1, n)

PROSHOT_WORDS ==
    {"pro-shot", "proshot", "broadcast", "tv", "multicam", "soundboard", "sbd", "webcast", "ppv"}

\* dvd\s*author
DvdAuthorAt(s, i) == StartsAt(s, i, "dvd") /\ StartsAt(s, i + 3 + SpaceRun(s, i + 3), "author")

AUDIENCE_WORDS == {"audience", "taper", "camcorder", "handheld", "hi8", "minidv"}

\* aud\b
AudAt(s, i) == StartsAt(s, i, "aud") /\ WordBoundary(s, i + 3)

\* \bvx\d{3,4}\b
VxAt(s, i) ==
    /\ WordBoundary(s, i)
    /\ StartsAt(s, i, "vx")
    /\ \/ AllDigits(s, i + 2, 4) /\ WordBoundary(s, i + 6)
       \/ AllDigits(s, i + 2, 3) /\ WordBoundary(s, i + 5)

DOCUMENTARY_WORDS == {"documentary", "interview", "featurette", "behind the scenes", "bts"}

determine_recording_type(notes, folder) ==
    LET text == ToLower(notes \o "\n" \o PathName(folder))
    IN  IF ContainsAny(text, PROSHOT_WORDS) \/ \E i \in 1..Len(text) : DvdAuthorAt(text, i)
        THEN "Proshot"
        ELSE IF \/ ContainsAny(text, AUDIENCE_WORDS)
                \/ \E i \in 1..Len(text) : AudAt(text, i) \/ VxAt(text, i)
        THEN "Audience"
        ELSE IF ContainsAny(text, DOCUMENTARY_WORDS) THEN "Documentary"
        ELSE ""

\* \b(master)\b
MasterAt(s, i) == WordBoundary(s, i) /\ StartsAt(s, i, "master") /\ WordBoundary(s, i + 6)

ORDINAL_SUFFIXES == {"st", "nd", "rd", "th"}

\* gen(eration)?\b at position p
GenWordAt(s, p) ==
    /\ StartsAt(s, p, "gen")
    /\ \/ StartsAt(s, p, "generation") /\ WordBoundary(s, p + 10)
       \/ WordBoundary(s, p + 3)

\* \b(\d+)(st|nd|rd|th)\s*gen(eration)?\b: <<group 1, group 2>>
OrdinalGenAt(s, i) ==
    LET n == DigitRun(s, i)
        suf == SubSeq(s, i + n, MinOf({i + n + 1, Len(s)}))
        p == i + n + 2 + SpaceRun(s, i + n + 2)
    IN  IF n >= 1 /\ WordBoundary(s, i) /\ suf \in ORDINAL_SUFFIXES /\ GenWordAt(s, p)
        THEN <<SubSeq(s, i, i + n - 1), suf>>
        ELSE NoMatch

\* \s*[:\- ]\s*(\d+)\b at position p: the position of group 1, or 0.  The
\* separator is a colon or a dash after the white space, or one of its blanks
SepNumberFrom(s, p) ==
    LET w == SpaceRun(s, p)
        q == p + w
        d == IF ChAt(s, q) \in {":", "-"} THEN q + 1 + SpaceRun(s, q + 1)
             ELSE IF \E k \in p..(q - 1) : ChAt(s, k) = " " THEN q
             ELSE 0
    IN  IF d # 0 /\ DigitRun(s, d) >= 1 /\ WordBoundary(s, d + DigitRun(s, d)) THEN d ELSE 0

\* \bgen(?:eration)?\s*[:\- ]\s*(\d+)\b: <<group 1>>
GenNumberAt(s, i) ==
    IF ~(WordBoundary(s, i) /\ StartsAt(s, i, "gen")) THEN NoMatch
    ELSE LET p == IF StartsAt(s, i, "generation") THEN i + 10 ELSE i + 3
             d == SepNumberFrom(s, p)
         IN  IF d = 0 THEN NoMatch ELSE <<SubSeq(s, d, d + DigitRun(s, d) - 1)>>

determine_generation(notes, folder) ==
    LET text == ToLower(notes \o "\n" \o PathName(folder))
    IN  IF \E i \in 1..Len(text) : MasterAt(text, i) THEN "Master"
        ELSE LET m == Search(OrdinalGenAt, text)
             IN  IF m # NoMatch THEN m[1] \o m[2] \o " Gen"
                 ELSE LET g == Search(GenNumberAt, text)
                      IN  IF g # NoMatch THEN g[1] \o " Gen" ELSE ""

(***************************************************************************)
(* extract_section_by_anchor, first_line_after_key, extract_lineage.       *)
(***************************************************************************)
\* anchor_re.match(ln.strip()) for an anchor ^(k1|k2|...)\s*:?\s*$ that
\* ignores case: a keyword, optionally followed by white space and a colon
AnchorMatch(keys, ln) ==
    LET t == ToLower(Strip(ln))
    IN  \/ t \in keys
        \/ t # "" /\ ChAt(t, Len(t)) = ":" /\ RStrip(SubSeq(t, 1, Len(t) - 1)) \in keys

\* the loop of extract_section_by_anchor
RECURSIVE SectionFrom(_, _, _, _)
SectionFrom(lines, keys, grabbing, collected) ==
    IF lines = <<>> THEN collected
    ELSE LET ln == Head(lines)
         IN  IF AnchorMatch(keys, ln) THEN SectionFrom(Tail(lines), keys, TRUE, collected)
             ELSE IF ~grabbing THEN SectionFrom(Tail(lines), keys, FALSE, collected)
             ELSE IF Strip(ln) = ""
             THEN IF collected # <<>> THEN collected
                  ELSE SectionFrom(Tail(lines), keys, TRUE, collected)
             ELSE SectionFrom(Tail(lines), keys, TRUE, Append(collected, RStrip(ln)))

extract_section_by_anchor(text, keys) ==
    IF text = "" THEN <<>> ELSE SectionFrom(splitlines(text), keys, FALSE, <<>>)

first_line_after_key(text, keys) ==
    IF text = "" THEN ""
    ELSE LET lines == splitlines(text)
             After(i) == {j \in (i + 1)..MinOf({i + 5, Len(lines)}) : Strip(lines[j]) # ""}
             hits == {i \in 1..Len(lines) : AnchorMatch(keys, lines[i]) /\ After(i) # {}}
         IN  IF hits = {} THEN "" ELSE Strip(lines[MinOf(After(MinOf(hits)))])

\* re.sub(r"\s+", " ", s)
RECURSIVE SquashSpaces(_)
SquashSpaces(s) ==
    IF s = "" THEN ""
    ELSE LET w == SpaceRun(s, 1)
         IN  IF w >= 1 THEN " " \o SquashSpaces(SubSeq(s, w + 1, Len(s)))
             ELSE Head(s) \o SquashSpaces(Tail(s))

\* the order-preserving removal of repeats, compared in lower case
RECURSIVE DedupLower(_, _, _)
DedupLower(items, seen, out) ==
    IF items = <<>> THEN out
    ELSE LET key == ToLower(Head(items))
         IN  IF key \in seen THEN DedupLower(Tail(items), seen, out)
             ELSE DedupLower(Tail(items), seen \cup {key}, Append(out, Head(items)))

LINEAGE_KEYS == {"lineage", "source", "taper", "gen", "generation"}

\* the length of the keyword (lineage|source|taper|gen(?:eration)?) that
\* starts at position i, ignoring case, or 0
LineageKeyLen(s, i) ==
    LET at(k) == ToLower(SubSeq(s, i, MinOf({i + Len(k) - 1, Len(s)}))) = k
    IN  IF at("lineage") THEN 7
        ELSE IF at("source") THEN 6
        ELSE IF at("taper") THEN 5
        ELSE IF at("generation") THEN 10
        ELSE IF at("gen") THEN 3
        ELSE 0

\* (?im)^(lineage|source|taper|gen(?:eration)?)\s*[:\-]\s*(.+)$ at position
\* i: <<where group 2 starts, where the match ends>>.  White space may run over
\* line ends; group 2 is the rest of the line the value starts on.  A match
\* that finds only white space to the end of the text gives no piece.
LineageValueAt(s, i, e, c, t, nl) ==
    IF (i = 1 \/ ChAt(s, i - 1) = "\n") /\ e > 0 /\ ChAt(s, c) \in {":", "-"} /\ t <= Len(s)
    THEN <<t, IF nl = 0 THEN Len(s) + 1 ELSE nl>>
    ELSE NoMatch

\* c is where the separator must be, after a keyword of length e
LineageSepAt(s, i, e, c) ==
    LineageValueAt(s, i, e, c, c + 1 + SpaceRun(s, c + 1),
                   FindCh(s, {"\n"}, c + 1 + SpaceRun(s, c + 1)))

LineageInlineAt(s, i) ==
    LineageSepAt(s, i, LineageKeyLen(s, i),
                 i + LineageKeyLen(s, i) + SpaceRun(s, i + LineageKeyLen(s, i)))

\* re.findall of the pattern above, from the line start i on: the values of
\* group 2 (a match starts at a line start only)
RECURSIVE LineageInline(_, _), LineageInlineStep(_, _, _)
LineageInline(s, i) ==
    IF i > Len(s) THEN <<>>
    ELSE LineageInlineStep(s, LineageInlineAt(s, i), FindCh(s, {"\n"}, i))

\* m is the match at a line start and nl the end of that line
LineageInlineStep(s, m, nl) ==
    IF m # NoMatch THEN <<SubSeq(s, m[1], m[2] - 1)>> \o LineageInline(s, m[2] + 1)
    ELSE IF nl = 0 THEN <<>>
    ELSE LineageInline(s, nl + 1)

RECURSIVE MapSquash(_)
MapSquash(lines) ==
    IF lines = <<>> THEN <<>> ELSE <<Strip(SquashSpaces(Head(lines)))>> \o MapSquash(Tail(lines))

\* pieces, from the three places a lineage is looked for
LineagePieces(inline, anchored, line) ==
    IF inline # <<>> THEN inline
    ELSE IF anchored # <<>> THEN MapSquash(SelectSeq(anchored, LAMBDA x : Strip(x) # ""))
    ELSE IF line # "" THEN <<Strip(SquashSpaces(line))>>
    ELSE <<>>

extract_lineage(notes) ==
    IF notes = "" THEN ""
    ELSE Take(JoinWith(DedupLower(LineagePieces(StripNonEmpty(LineageInline(notes, 1)),
                                                extract_section_by_anchor(notes, LINEAGE_KEYS),
                                                first_line_after_key(notes, LINEAGE_KEYS)),
                                  {}, <<>>), " | "), 2000)

(***************************************************************************)
(* clean_song_title, extract_setlist.                                      *)
(***************************************************************************)
SETLIST_ANCHORS == {"setlist", "tracklist", "tracks", "songs"}

NON_SONG_HINTS ==
    {"lineage", "taper", "venue", "location", "source", "video", "audio", "menu", "chapters",
     "checksum", "md5", "author", "www", "http", "https", "torrent", "poster"}

\* the characters a title may hold after its first letter:
\* [A-Za-z0-9&/'()\-\. ] (the typographic apostrophe of the source lies
\* outside the characters of this model)
SONG_CHARS == AlphaChars \cup DigitChars \cup {"&", "/", "'", "(", ")", "-", ".", " "}

TITLE_TAGS ==
    {"live", "cut", "jam", "tape", "alt mix", "alt. mix", "remix", "reprise", "acoustic",
     "intro", "outro"}

\* s from position i on is white space only
AllSpace(s, i) == SpaceRun(s, i) >= Len(s) - i + 1

\* str.strip(chars)
RECURSIVE StripChars(_, _)
StripChars(s, set) ==
    IF s = "" THEN ""
    ELSE IF Head(s) \in set THEN StripChars(Tail(s), set)
    ELSE IF ChAt(s, Len(s)) \in set THEN StripChars(SubSeq(s, 1, Len(s) - 1), set)
    ELSE s

\* len(re.findall(r"[A-Za-z]", s))
LetterCount(s) == Cardinality({i \in 1..Len(s) : IsAlpha(ChAt(s, i))})

\* ^\s*(?:\[\s*\d{1,2}:\d{2}\s*\]|\d{1,2}:\d{2}) on a stripped line: the
\* position after the time stamp, or 0
TimeStampEnd(raw) ==
    IF ChAt(raw, 1) = "["
    THEN LET a == 2 + SpaceRun(raw, 2)
             d == DigitRun(raw, a)
             b == a + d + 3
             c == b + SpaceRun(raw, b)
         IN  IF d \in {1, 2} /\ ChAt(raw, a + d) = ":" /\ AllDigits(raw, a + d + 1, 2)
                /\ ChAt(raw, c) = "]"
             THEN c + 1 ELSE 0
    ELSE LET d == IF AllDigits(raw, 1, 2) /\ ChAt(raw, 3) = ":" THEN 2 ELSE 1
         IN  IF AllDigits(raw, 1, d) /\ ChAt(raw, d + 1) = ":" /\ AllDigits(raw, d + 2, 2)
             THEN d + 4 ELSE 0

\* \s*[-:]?\s*(.+)$ from position p: where group 1 starts (past the end of
\* raw when only separators are left, which never makes a title)
TimeStampTitleAt(raw, p) ==
    LET a == p + SpaceRun(raw, p)
        b == IF ChAt(raw, a) \in {"-", ":"} THEN a + 1 ELSE a
    IN  b + SpaceRun(raw, b)

\* the prefix SONG_LINE allows in front of the first letter:
\* \d{1,2}\s*[.)-]\s* | \[\d{1,2}:\d{2}\]\s* | ~?\d{1,2}:\d{2}\s* | -?\s*
SongPrefix(pre) ==
    LET d1 == DigitRun(pre, 1)
        q == 1 + d1 + SpaceRun(pre, 1 + d1)
        d2 == DigitRun(pre, 2)
        t == IF ChAt(pre, 1) = "~" THEN 1 ELSE 0
        d3 == DigitRun(pre, 1 + t)
        h == IF ChAt(pre, 1) = "-" THEN 1 ELSE 0
    IN  \/ d1 \in {1, 2} /\ ChAt(pre, q) \in {".", ")", "-"} /\ AllSpace(pre, q + 1)
        \/ /\ ChAt(pre, 1) = "[" /\ d2 \in {1, 2} /\ ChAt(pre, 2 + d2) = ":"
           /\ AllDigits(pre, 3 + d2, 2) /\ ChAt(pre, 5 + d2) = "]" /\ AllSpace(pre, 6 + d2)
        \/ /\ d3 \in {1, 2} /\ ChAt(pre, 1 + t + d3) = ":" /\ AllDigits(pre, 2 + t + d3, 2)
           /\ AllSpace(pre, 4 + t + d3)
        \/ AllSpace(pre, 1 + h)

\* SONG_LINE.match(raw).group(1) on a stripped line, or "" when there is no
\* match: the group starts at the first letter and runs to the end
SongLineTitle(raw) ==
    LET f == FindCh(raw, AlphaChars, 1)
    IN  IF /\ f # 0
           /\ SongPrefix(SubSeq(raw, 1, f - 1))
           /\ Len(raw) - f + 1 >= 3
           /\ \A k \in f..Len(raw) : ChAt(raw, k) \in SONG_CHARS
        THEN SubSeq(raw, f, Len(raw))
        ELSE ""

\* re.sub(r"\s*\((live|...|outro)\)\s*$", "", title, flags=re.IGNORECASE)
\* on a stripped title
DropTitleTag(title) ==
    LET opens == {k \in 1..Len(title) :
                     /\ ChAt(title, k) = "("
                     /\ ChAt(title, Len(title)) = ")"
                     /\ ToLower(SubSeq(title, k + 1, Len(title) - 1)) \in TITLE_TAGS}
    IN  IF opens = {} THEN title ELSE RStrip(SubSeq(title, 1, MinOf(opens) - 1))

\* the title of a setlist line, "" for None
clean_song_title(line) ==
    LET raw == Strip(line)
        ts == TimeStampEnd(raw)
        g == TimeStampTitleAt(raw, ts)
    IN  IF line = "" THEN ""
        ELSE IF ts # 0 /\ ts <= Len(raw)
        THEN LET title == IF g > Len(raw) THEN ""
                          ELSE StripChars(CollapseSpaces(Strip(SubSeq(raw, g, Len(raw)))),
                                          {" ", ".", "-"})
             IN  IF LetterCount(title) >= 2 THEN title ELSE ""
        ELSE IF ContainsAny(ToLower(raw), NON_SONG_HINTS) THEN ""
        ELSE LET title == StripChars(CollapseSpaces(DropTitleTag(Strip(SongLineTitle(raw)))),
                                     {" ", ".", "-"})
             IN  IF LetterCount(title) >= 2 THEN title ELSE ""

RECURSIVE SongTitles(_)
SongTitles(candidates) ==
    IF candidates = <<>> THEN <<>>
    ELSE LET t == clean_song_title(Head(candidates))
         IN  (IF t = "" THEN <<>> ELSE <<t>>) \o SongTitles(Tail(candidates))

extract_setlist(notes) ==
    IF notes = "" THEN ""
    ELSE LET anchored == extract_section_by_anchor(notes, SETLIST_ANCHORS)
             candidates == IF anchored # <<>> THEN anchored ELSE splitlines(notes)
         IN  JoinWith(Take(DedupLower(SongTitles(candidates), {}, <<>>), 200), "; ")

\* dict lookup in checksum_to_showid, a sequence of <<checksum, ShowID>>
HasChecksum(map, ch) == \E k \in 1..Len(map) : map[k][1] = ch

ShowIdOf(map, ch) == map[CHOOSE k \in 1..Len(map) : map[k][1] = ch][2]

\* event_or_festival = event_guess or festival
RefinedEvent(loc, ev) == IF ev[1] # "" THEN ev[1] ELSE loc.festival

\* if venue_override: venue = venue_override
RefinedVenue(loc, ev) == IF ev[2] # "" THEN ev[2] ELSE loc.venue

\* the hints of the location and of the event line, as appended to warnings
LocationHints(loc, ev) ==
    (IF loc.hint # "" THEN <<loc.hint>> ELSE <<>>) \o (IF ev[3] # "" THEN <<ev[3]>> ELSE <<>>)

\* the row, from the notes, the location and the event line found for the folder
ExtractedRow(fpath, show_id, rep, visit, notes, note_warnings, loc, ev) ==
    [ShowID |-> show_id,
     Artist |-> resolve_artist(fpath, notes),
     ShowDate |-> guess_date(notes),
     EventOrFestival |-> RefinedEvent(loc, ev),
     VenueName |-> RefinedVenue(loc, ev),
     City |-> loc.city,
     Country |-> loc.country,
     RecordingType |-> determine_recording_type(notes, fpath),
     Generation |-> determine_generation(notes, fpath),
     Lineage |-> Take(extract_lineage(notes), 2000),
     FolderName |-> PathName(fpath),
     FolderPath |-> PathStr(fpath),
     RepVideoCount |-> Len(rep[1]),
     RepVideoFiles |-> JoinWith([k \in 1..Len(rep[1]) |-> RelStr(rep[1][k], fpath)], "; "),
     Container |-> rep[2],
     ChecksumSHA1 |-> "",
     DuplicateOf |-> "",
     Setlist |-> Take(extract_setlist(notes), 2000),
     Notes |-> Take(notes, 8000),
     LastScannedAt |-> now_iso,
     ExtractionWarnings |-> JoinWith(note_warnings \o LocationHints(loc, ev), "; "),
     visit |-> visit]

\* the row, from the notes and the location found for the folder
LocatedRow(fpath, show_id, rep, visit, notes, note_warnings, loc) ==
    ExtractedRow(fpath, show_id, rep, visit, notes, note_warnings, loc,
                 extract_event_and_split_venue(notes, loc.venue))

\* the row, from cn = <<notes, warnings>> as collect_notes returns them
NotedRow(fpath, show_id, rep, visit, cn) ==
    LocatedRow(fpath, show_id, rep, visit, cn[1], cn[2], parse_location(cn[1], PathName(fpath)))

\* the row of a show folder before the checksum step; visit is the number of
\* the visit that produced it (history, not a column)
ShowRow(fpath, show_id, rep, visit) ==
    NotedRow(fpath, show_id, rep, visit, collect_notes(fpath))

\* the minimal row of the except branch
StubRow(fpath, visit) ==
    [ShowID |-> normalize_show_id(fpath),
     Artist |-> PathName(fpath),
     ShowDate |-> "",
     EventOrFestival |-> "",
     VenueName |-> "",
     City |-> "",
     Country |-> "",
     RecordingType |-> "",
     Generation |-> "",
     Lineage |-> "",
     FolderName |-> PathName(fpath),
     FolderPath |-> PathStr(fpath),
     RepVideoCount |-> 0,
     RepVideoFiles |-> "",
     Container |-> "",
     ChecksumSHA1 |-> "",
     DuplicateOf |-> "",
     Setlist |-> "",
     Notes |-> "",
     LastScannedAt |-> now_iso,
     ExtractionWarnings |-> "Unhandled error while scanning this folder",
     visit |-> visit]

\* the checksum step: the row with ChecksumSHA1 and DuplicateOf filled in
WithChecksum(row, rep_files, map) ==
    IF do_checksums /\ rep_files # <<>>
    THEN LET ch == sha1_of_files_in_order(rep_files)
         IN  [row EXCEPT !.ChecksumSHA1 = ch,
                         !.DuplicateOf = IF ch # "" /\ HasChecksum(map, ch)
                                         THEN ShowIdOf(map, ch) ELSE ""]
    ELSE row

\* a plausible slip: the last row that produced a checksum owns it
ChecksumsAfterLastWins(row, rep_files, map) ==
    IF do_checksums /\ rep_files # <<>>
    THEN LET ch == sha1_of_files_in_order(rep_files)
         IN  IF ch = "" THEN map
             ELSE IF HasChecksum(map, ch)
             THEN [k \in 1..Len(map) |-> IF map[k][1] = ch THEN <<ch, row.ShowID>> ELSE map[k]]
             ELSE Append(map, <<ch, row.ShowID>>)
    ELSE map

\* checksum_to_showid after the checksum step
ChecksumsAfter(row, rep_files, map) ==
    IF do_checksums /\ rep_files # <<>>
    THEN LET ch == sha1_of_files_in_order(rep_files)
         IN  IF ch # "" /\ ~HasChecksum(map, ch) THEN Append(map, <<ch, row.ShowID>>) ELSE map
    ELSE map

\* a plausible slip: dirnames left as os.walk filled it
ShowDirNamesKept(dirnames) == dirnames

\* dirnames after the body of the loop ran for a show folder
ShowDirNames(dirnames) == <<>>

\* dirnames after the body of the loop met a denylisted name
ExcludedDirNames(dirnames) == <<>>

\* rows.sort(key=...): the key of a row and its order
SortKey(r) ==
    <<ToLower(r.Artist), IF r.ShowDate = "" THEN "9999-99-99" ELSE r.ShowDate, ToLower(r.FolderName)>>

RowBefore(a, b) ==
    LET ka == SortKey(a)
        kb == SortKey(b)
    IN  \/ StrLess(ka[1], kb[1])
        \/ ka[1] = kb[1] /\ StrLess(ka[2], kb[2])
        \/ ka[1] = kb[1] /\ ka[2] = kb[2] /\ StrLess(ka[3], kb[3])

(***************************************************************************)
(* The folder trees that are scanned, and the root lists.                  *)
(***************************************************************************)
\* a volume of well-formed and ambiguous folders
Shelf ==
    Dir("", <<
      Dir("v", <<
        Dir("Muse", <<
          Dir("2006-07-01 Forum - Inglewood", <<
            File("show.mkv", "AAAA"),
            File("info.txt", "Live at The Forum\nInglewood, CA\n2006-07-01\n"),
            Dir("cam2", <<File("b.mkv", "BB")>>)>>),
          Dir("wembley", <<
            Dir("VIDEO_TS", <<
              File("VTS_02_1.VOB", "BBB"),
              File("VTS_01_2.VOB", "AA"),
              File("VTS_01_1.VOB", "AA"),
              File("VIDEO_TS.IFO", "i")>>),
            File("a.nfo", "Wembley Stadium\nLondon, UK\nSetlist:\n1. Starlight\n2. Uno (live)\n\nLineage: VX2000 > DVD\n2nd gen\n"),
            Dir("Notes", <<File("set.txt", "16-06-2007")>>)>>),
          Dir("copy", <<File("dup.mkv", "AAAA")>>)>>),
        Dir("box", <<
          Dir("VIDEO_TS", <<File("VTS_01_1.VOB", "CC")>>),
          Dir("x", <<File("a.mkv", "D")>>),
          Dir("y", <<File("b.mkv", "E")>>)>>),
        Dir("loose", <<
          File("l1.mp4", "F"),
          File("l2.MKV", "GG"),
          Dir("sub", <<Dir("deep", <<File("z.mkv", "H")>>)>>)>>),
        Dir("pair", <<
          File("c.avi", "I"),
          Dir("p", <<File("a.mkv", "J")>>),
          Dir("q", <<File("b.mp4", "K")>>)>>),
        Dir("gig", <<
          File("cut.mkv", "R"),
          Dir("full", <<File("all.mkv", "SSS")>>)>>),
        Dir("Extras", <<
          File("clip.mkv", "L"),
          Dir("more", <<File("m.mkv", "M")>>)>>)>>)>>)

\* a volume with unreadable directories and files
Attic ==
    Dir("", <<
      Dir("v", <<
        Dir("bad", <<
          File("show.avi", "N"),
          Locked(Dir("VIDEO_TS", <<File("VTS_01_1.VOB", "O")>>))>>),
        Dir("bad2", <<
          Locked(Dir("video_ts", <<File("VTS_01_1.VOB", "P")>>)),
          Dir("sub", <<File("s.mkv", "AAAA")>>)>>),
        Dir("sealed", <<Locked(File("s.mkv", "ZZ"))>>),
        Dir("sealed2", <<Locked(File("t.mkv", "ZZ"))>>),
        Dir("tapes", <<
          File("t.mkv", "Q"),
          Locked(File("a.txt", "Spektrum\nOslo, Norway\n")),
          File("b.txt", "Olympia\nParis, France\n"),
          File("c.nfo", " \n"),
          File("d.doc", "binary")>>),
        Dir("Muse", <<File("last.mkv", "AAAA"), File("tiny.mkv", "A")>>)>>)>>)

Trees == {Shelf, Attic}

\* the paths a root list is made of
RootChoices == {<<"v">>, <<"v", "Muse">>, <<"gone">>}

MaxRoots == 2

RECURSIVE RootLists(_)
RootLists(n) ==
    IF n = 0 THEN {<<>>}
    ELSE LET shorter == RootLists(n - 1)
         IN  shorter \cup {Append(l, r) : l \in shorter, r \in RootChoices}

(***************************************************************************)
(* The walk as a state machine: one step for every turn of the root loop   *)
(* and for every directory os.walk yields.                                 *)
(***************************************************************************)
Init ==
    /\ HarnessIdle
    /\ ShotIdle
    /\ fs \in Trees
    /\ roots \in RootLists(MaxRoots) \ {<<>>}
    /\ do_checksums \in BOOLEAN
    /\ pc = "roots"
    /\ root_i = 1
    /\ pending = <<>>
    /\ rows = <<>>
    /\ seen_ids = {}
    /\ checksum_to_showid = <<>>
    /\ clock = 1
    /\ run = 1
    /\ prev_rows = <<>>
    /\ visits = <<>>

\* what every step inside os.walk leaves alone
WalkFrame == UNCHANGED <<hvars, svars, fs, roots, do_checksums, run, prev_rows>>

\* the directories os.walk still has to yield once the body is done with
\* dirpath and has left kept in dirnames; the walk of the root ends when
\* none is left
Proceed(kept) ==
    LET rest == Walkable(kept) \o Tail(pending)
    IN  /\ pending' = rest
        /\ pc' = IF rest = <<>> THEN "roots" ELSE "walk"
        /\ root_i' = IF rest = <<>> THEN root_i + 1 ELSE root_i

\* the record of one turn of the loop over os.walk: what the body made of
\* dirpath, what it left in dirnames (kept) and the rep_files it found
Visit(kind, fpath, classify_raised, extract_raised, kept, rep_files) ==
    [run |-> run, root |-> root_i, path |-> fpath, kind |-> kind,
     classify_raised |-> classify_raised, extract_raised |-> extract_raised, kept |-> kept,
     rep_files |-> rep_files]

\* a plausible slip: break where the code has continue
SkipRootBreak ==
    /\ pc = "roots"
    /\ root_i <= Len(roots)
    /\ ~Exists(roots[root_i])
    /\ root_i' = Len(roots) + 1
    /\ UNCHANGED <<hvars, svars, fs, roots, do_checksums, pc, pending, rows, seen_ids,
                   checksum_to_showid, clock, run, prev_rows, visits>>

\* for root in roots: if not root.exists(): continue
SkipRoot ==
    /\ pc = "roots"
    /\ root_i <= Len(roots)
    /\ ~Exists(roots[root_i])
    /\ root_i' = root_i + 1
    /\ UNCHANGED <<hvars, svars, fs, roots, do_checksums, pc, pending, rows, seen_ids,
                   checksum_to_showid, clock, run, prev_rows, visits>>

\* os.walk(root) starts; it yields nothing when root cannot be listed
StartRoot ==
    /\ pc = "roots"
    /\ root_i <= Len(roots)
    /\ Exists(roots[root_i])
    /\ pending' = Walkable(<<roots[root_i]>>)
    /\ pc' = IF CanList(roots[root_i]) THEN "walk" ELSE "roots"
    /\ root_i' = IF CanList(roots[root_i]) THEN root_i ELSE root_i + 1
    /\ UNCHANGED <<hvars, svars, fs, roots, do_checksums, rows, seen_ids,
                   checksum_to_showid, clock, run, prev_rows, visits>>

\* the body of the loop for a directory with a denylisted name
VisitExcluded ==
    /\ pc = "walk"
    /\ LET fpath == Head(pending)
           kept == ExcludedDirNames(DirNames(fpath))
       IN  /\ IsExcluded(fpath)
           /\ visits' = Append(visits, Visit("excluded", fpath, FALSE, FALSE, kept, <<>>))
           /\ Proceed(kept)
    /\ UNCHANGED <<rows, seen_ids, checksum_to_showid, clock>>
    /\ WalkFrame

\* what the loop body leaves behind for a directory that is_show_folder rejects:
\* cls is the classification, kept the directories left to walk and after the
\* rows and ids behind the loose files
ContainerBody(fpath, cls, kept, after) ==
    /\ ~cls[1]
    /\ rows' = after[1]
    /\ seen_ids' = after[2]
    /\ visits' = Append(visits, Visit("container", fpath, cls[2], FALSE, kept, <<>>))
    /\ Proceed(kept)

\* the body of the loop for a directory that is_show_folder rejects
VisitContainer ==
    /\ pc = "walk"
    /\ ~IsExcluded(Head(pending))
    /\ ContainerBody(Head(pending), is_show_folder(Head(pending)), DirNames(Head(pending)),
                     LooseLoop(LooseFiles(Head(pending)), 1, rows, seen_ids))
    /\ UNCHANGED <<checksum_to_showid, clock>>
    /\ WalkFrame

\* the checksum step and rows.append(row)
ShowRecorded(row, rep_files) ==
    /\ rows' = Append(rows, WithChecksum(row, rep_files, checksum_to_showid))
    /\ checksum_to_showid' = ChecksumsAfter(row, rep_files, checksum_to_showid)

\* what the loop body leaves behind for a show folder whose extraction succeeds
ShowBody(fpath, cls, show_id, rep, kept) ==
    /\ cls[1]
    /\ ~rep[3]
    /\ seen_ids' = seen_ids \cup {show_id}
    /\ ShowRecorded(ShowRow(fpath, show_id, rep, Len(visits) + 1), rep[1])
    /\ visits' = Append(visits, Visit("show", fpath, cls[2], FALSE, kept, rep[1]))
    /\ Proceed(kept)

\* the body of the loop for a show folder, when nothing raises
VisitShow ==
    /\ pc = "walk"
    /\ ~IsExcluded(Head(pending))
    /\ ShowBody(Head(pending), is_show_folder(Head(pending)), normalize_show_id(Head(pending)),
                representative_media(Head(pending)), ShowDirNames(DirNames(Head(pending))))
    /\ clock' = clock + 1
    /\ WalkFrame

\* what the except branch leaves behind
ShowFailedBody(fpath, cls, show_id, rep, kept) ==
    /\ cls[1]
    /\ rep[3]
    /\ seen_ids' = seen_ids \cup {show_id}
    /\ rows' = Append(rows, StubRow(fpath, Len(visits) + 1))
    /\ visits' = Append(visits, Visit("error", fpath, cls[2], TRUE, kept, <<>>))
    /\ Proceed(kept)

\* the body of the loop for a show folder, when finding its representative
\* media raises: the except branch
VisitShowFailed ==
    /\ pc = "walk"
    /\ ~IsExcluded(Head(pending))
    /\ ShowFailedBody(Head(pending), is_show_folder(Head(pending)), normalize_show_id(Head(pending)),
                      representative_media(Head(pending)), <<>>)
    /\ clock' = clock + 1
    /\ UNCHANGED checksum_to_showid
    /\ WalkFrame

\* rows.sort(...); return rows
Return ==
    /\ pc = "roots"
    /\ root_i > Len(roots)
    /\ rows' = StableSort(rows, RowBefore)
    /\ pc' = "done"
    /\ UNCHANGED <<hvars, svars, fs, roots, do_checksums, root_i, pending, seen_ids,
                   checksum_to_showid, clock, run, prev_rows, visits>>

MaxRuns == 2

\* scan_roots is called again, later, with the same arguments on the same tree
ScanAgain ==
    /\ pc = "done"
    /\ run < MaxRuns
    /\ run' = run + 1
    /\ prev_rows' = rows
    /\ rows' = <<>>
    /\ seen_ids' = {}
    /\ checksum_to_showid' = <<>>
    /\ clock' = clock + 1
    /\ pc' = "roots"
    /\ root_i' = 1
    /\ pending' = <<>>
    /\ UNCHANGED <<hvars, svars, fs, roots, do_checksums, visits>>

Next ==
    \/ SkipRoot
    \/ StartRoot
    \/ VisitExcluded
    \/ VisitContainer
    \/ VisitShow
    \/ VisitShowFailed
    \/ Return
    \/ ScanAgain

Spec == Init /\ [][Next]_vars

(***************************************************************************)
(* History helpers for the claims about the walk.                          *)
(***************************************************************************)
\* q lies strictly below p
StrictlyBelow(p, q) == IsPrefix(p, q) /\ Len(q) > Len(p)

\* the visits of the call of scan_roots that is running (or has just returned)
ThisRun == {k \in 1..Len(visits) : visits[k].run = run}

\* the rows that visit k appended
RowsOfVisit(k) == {i \in 1..Len(rows) : rows[i].visit = k}

(***************************************************************************)
(* C1: a directory with at least two child directories that each qualify   *)
(* as a show is never classified as a show, also when it directly holds a  *)
(* qualifying VIDEO_TS structure: is_show_folder is false for it, no row   *)
(* is emitted for it and all its child directories are descended into.     *)
(***************************************************************************)
C1_MultiShowContainer ==
    \A k \in ThisRun :
        LET D == visits[k].path
        IN  (visits[k].kind # "excluded" /\ Len(ChildShowDirs(D)) >= 2)
            => /\ ~is_show_folder(D)[1]
               /\ visits[k].kind = "container"
               /\ RowsOfVisit(k) = {}
               /\ visits[k].kept = DirNames(D)

(***************************************************************************)
(* C2: a visited directory without a child directory that qualifies as a   *)
(* show and with n >= 1 loose video files of its own yields, in the        *)
(* returned rows, exactly one row per loose file, with the ShowID derived  *)
(* from that file's path (so the n ShowIDs are pairwise distinct), and its *)
(* subdirectories are still descended into.                                *)
(***************************************************************************)
C2_LooseFileRows ==
    pc = "done" =>
        \A k \in ThisRun :
            LET D == visits[k].path
                loose == LooseFiles(D)
            IN  (visits[k].kind # "excluded" /\ Len(ChildShowDirs(D)) = 0 /\ Len(loose) >= 1)
                => /\ \A j \in 1..Len(loose) :
                          Cardinality({i \in 1..Len(rows) :
                                          rows[i].ShowID = normalize_show_id(loose[j])}) >= 1
                   /\ Cardinality({i \in 1..Len(rows) :
                                      \E j \in 1..Len(loose) :
                                          rows[i].FolderPath = PathStr(loose[j])}) <= Len(loose)
                   /\ visits[k].kept = DirNames(D)

(***************************************************************************)
(* C3: when classifying a directory or extracting its facts raises an      *)
(* unexpected error, exactly one stub row is appended for that directory   *)
(* (ShowID derived from its path, its FolderName, the warning 'Unhandled   *)
(* error while scanning this folder'), and the walk goes on: when the scan *)
(* returns, every sibling directory and every later root has been visited. *)
(***************************************************************************)
C3_IsStub(r, D) ==
    /\ r.ShowID = Sha1Hex(PathStr(D))
    /\ r.FolderName = PathName(D)
    /\ r.ExtractionWarnings = "Unhandled error while scanning this folder"

\* the directory was yielded by the walk of root number i of this run
C3_Visited(i, p) ==
    \E k \in ThisRun : visits[k].root = i /\ visits[k].path = p

C3_StubRowAndContinue ==
    \A k \in ThisRun :
        LET D == visits[k].path
        IN  (visits[k].classify_raised \/ visits[k].extract_raised)
            => /\ Cardinality(RowsOfVisit(k)) = 1
               /\ \A i \in RowsOfVisit(k) : C3_IsStub(rows[i], D)
               /\ pc = "done" =>
                      /\ \A j \in ThisRun :
                             (visits[j].root = visits[k].root /\ visits[j].kind = "container"
                              /\ visits[j].path = PathParent(D))
                             => \A s \in 1..Len(visits[j].kept) :
                                    CanList(visits[j].kept[s])
                                    => C3_Visited(visits[k].root, visits[j].kept[s])
                      /\ \A i \in (visits[k].root + 1)..Len(roots) :
                             CanList(roots[i]) => C3_Visited(i, roots[i])

(***************************************************************************)
(* C5: within one run a ShowID that is met a second time is recorded once: *)
(* the rows hold at most one row per ShowID, and the children of the       *)
(* directory that repeats it are not descended into again.                 *)
(***************************************************************************)
C5_RecordedOnce ==
    /\ \A i, j \in 1..Len(rows) : rows[i].ShowID = rows[j].ShowID => i = j
    /\ \A k, j \in ThisRun :
           (j < k /\ visits[j].path = visits[k].path /\ visits[j].kind \in {"show", "error"})
           => visits[k].kept = <<>>

(***************************************************************************)
(* C4: with checksums enabled, the show rows of one scan whose             *)
(* representative media can all be read and hold the same bytes in the     *)
(* same order carry the same non-empty ChecksumSHA1; the first-scanned of  *)
(* them has an empty DuplicateOf and every later-scanned one has the       *)
(* ShowID of the first-scanned one as its DuplicateOf.                     *)
(***************************************************************************)
\* the rows of show folders that have representative media
C4_ShowRows ==
    {i \in 1..Len(rows) : visits[rows[i].visit].kind = "show" /\ rows[i].RepVideoCount > 0}

\* the representative files found for the folder of row i
C4_RepFiles(i) == visits[rows[i].visit].rep_files

C4_Readable(i) ==
    LET files == C4_RepFiles(i)
    IN  \A k \in 1..Len(files) : NodeAt(files[k]).readable

\* the first-scanned row of those in S that hold the same bytes as row i;
\* bytes[j] is what the representative files of row j hold
C4_FirstScanned(S, bytes, i) ==
    LET same == {j \in S : bytes[j] = bytes[i]}
    IN  CHOOSE j \in same : \A h \in same : rows[j].visit <= rows[h].visit

C4_LinkedBy(S, bytes) ==
    \A i \in S :
        LET first == C4_FirstScanned(S, bytes, i)
        IN  /\ rows[i].ChecksumSHA1 # ""
            /\ rows[i].ChecksumSHA1 = rows[first].ChecksumSHA1
            /\ rows[i].DuplicateOf = IF i = first THEN "" ELSE rows[first].ShowID

C4_Linked(S) == C4_LinkedBy(S, [i \in S |-> AllBytes(C4_RepFiles(i))])

C4_DuplicateLinking ==
    do_checksums => C4_Linked({i \in C4_ShowRows : C4_Readable(i)})

\* the same without the condition that the media can be read
C4_DuplicateLinkingUnreadable ==
    do_checksums => C4_Linked(C4_ShowRows)

\* three folders with the same bytes have been scanned, and the third is
\* linked to the first
C4_Witness ==
    /\ do_checksums
    /\ pc = "done"
    /\ \E i, j, k \in C4_ShowRows :
           /\ rows[i].visit < rows[j].visit /\ rows[j].visit < rows[k].visit
           /\ C4_Readable(i) /\ C4_Readable(j) /\ C4_Readable(k)
           /\ AllBytes(C4_RepFiles(i)) = AllBytes(C4_RepFiles(j))
           /\ AllBytes(C4_RepFiles(j)) = AllBytes(C4_RepFiles(k))
           /\ rows[i].FolderPath # rows[j].FolderPath /\ rows[j].FolderPath # rows[k].FolderPath
           /\ rows[k].DuplicateOf = rows[i].ShowID
           /\ rows[k].DuplicateOf # rows[j].ShowID

(***************************************************************************)
(* C6: once a directory has been classified as a show and its row emitted, *)
(* no directory strictly below it is visited during the walk of that root, *)
(* and no row of that walk belongs to anything nested inside it.           *)
(***************************************************************************)
C6_ShowsAreTerminal ==
    \A k \in ThisRun :
        (visits[k].kind = "show" /\ RowsOfVisit(k) # {})
        => /\ \A j \in ThisRun :
                  visits[j].root = visits[k].root
                  => ~StrictlyBelow(visits[k].path, visits[j].path)
           /\ \A i \in 1..Len(rows) :
                  visits[rows[i].visit].root = visits[k].root
                  => ~StartsAt(rows[i].FolderPath, 1, PathStr(visits[k].path) \o "/")

\* a show folder that has a subdirectory which looks like a show itself has
\* been scanned, and the walk of its root is over
C6_Witness ==
    /\ pc = "done"
    /\ \E k \in ThisRun :
           /\ visits[k].kind = "show"
           /\ ChildShowDirs(visits[k].path) # <<>>
           /\ RowsOfVisit(k) # {}

(***************************************************************************)
(* C7: a directory whose lower-cased name is one of video_ts, audio_ts,    *)
(* info, nfo, docs, artwork, extras is never classified as a show, yields  *)
(* no row (for itself or for a loose file in it), and none of its          *)
(* subdirectories is visited in the walk that met it, also when it holds   *)
(* video files of its own.                                                 *)
(***************************************************************************)
C7_Denylist == {"video_ts", "audio_ts", "info", "nfo", "docs", "artwork", "extras"}

C7_DenylistedNeverScanned ==
    /\ \A k \in ThisRun :
           ToLower(PathName(visits[k].path)) \in C7_Denylist
           => /\ visits[k].kind = "excluded"
              /\ RowsOfVisit(k) = {}
              /\ \A j \in ThisRun :
                     visits[j].root = visits[k].root
                     => ~StrictlyBelow(visits[k].path, visits[j].path)
              /\ \A i \in 1..Len(rows) :
                     visits[rows[i].visit].root = visits[k].root
                     => ~StartsAt(rows[i].FolderPath, 1, PathStr(visits[k].path) \o "/")
    /\ \A i \in 1..Len(rows) : ToLower(rows[i].FolderName) \notin C7_Denylist

\* a denylisted directory with a video file and a subdirectory of its own
\* has been met, and the scan has returned
C7_Witness ==
    /\ pc = "done"
    /\ \E k \in ThisRun :
           /\ ToLower(PathName(visits[k].path)) \in C7_Denylist
           /\ has_direct_video_files(visits[k].path)[1]
           /\ Walkable(DirNames(visits[k].path)) # <<>>

(***************************************************************************)
(* C8: two runs of scan_roots over the same unchanged tree with the same   *)
(* roots and checksums enabled return the same number of rows in the same  *)
(* order, and corresponding rows agree on ShowID, ChecksumSHA1, Artist,    *)
(* ShowDate, EventOrFestival, VenueName, City, Country, Setlist, Lineage,  *)
(* RecordingType and Generation.                                           *)
(***************************************************************************)
C8_SameFacts(a, b) ==
    /\ a.ShowID = b.ShowID
    /\ a.ChecksumSHA1 = b.ChecksumSHA1
    /\ a.Artist = b.Artist
    /\ a.ShowDate = b.ShowDate
    /\ a.EventOrFestival = b.EventOrFestival
    /\ a.VenueName = b.VenueName
    /\ a.City = b.City
    /\ a.Country = b.Country
    /\ a.Setlist = b.Setlist
    /\ a.Lineage = b.Lineage
    /\ a.RecordingType = b.RecordingType
    /\ a.Generation = b.Generation

C9_IsCommaLine(ln) ==
    LET parts == CommaParts(ln)
    IN  Len(parts) >= 2 /\ IsCountryOrRegion(parts[Len(parts)])

C9_NoCommaLine(lines) == \A i \in 1..Len(lines) : ~C9_IsCommaLine(lines[i])

\* the positions of the three-line stacks: the third line is a country or a region
C9_Stacks(lines) == {i \in 1..(Len(lines) - 2) : IsCountryOrRegion(lines[i + 2])}

C9_HasFestivalKeyword(notes) == Search(FestivalAt, notes) # NoMatch

\* the city of the middle line of a stack: the line without a trailing region
C9_StackCity(b) ==
    LET m == CityRegionMatch(b)
    IN  IF m # NoMatch /\ ToUpper(m[2]) \in REGIONS THEN Strip(m[1]) ELSE b

C9_IsStackResult(r, lines, i) ==
    /\ r.venue = lines[i]
    /\ r.city = C9_StackCity(lines[i + 1])
    /\ r.country = CountryOf(lines[i + 2])

C9_FirstSuccess(lines, notes, folder_name) ==
    LET tiers == << CommaTier(lines), StackTier(lines), EventLineTier(lines), CityTier(lines),
                    folder_name_loc_fallback(folder_name), FestivalTier(notes) >>
        hits == {k \in 1..6 : tiers[k] # NoLoc}
    IN  IF hits = {} THEN NoLoc ELSE tiers[MinOf(hits)]

C10_Expected(text) ==
    LET m1 == Search(DatePattern1At, text)
        m2 == Search(DatePattern2At, text)
        m3 == Search(DatePattern3At, text)
    IN  IF m1 # NoMatch
        THEN IsoDate(StrToNat(m1[1]), StrToNat(m1[2]), StrToNat(m1[3]))
        ELSE IF m2 # NoMatch
        THEN LET A == StrToNat(m2[1])
                 B == StrToNat(m2[2])
                 Y == StrToNat(m2[3])
                 year == IF Len(m2[3]) = 2 \/ Y < 100 THEN 2000 + Y ELSE Y
                 day == IF A > 12 THEN A ELSE B
                 month == IF A > 12 THEN B ELSE A
             IN  IsoDate(year, month, day)
        ELSE IF m3 # NoMatch /\ MonthOf(m3[1]) # 0
        THEN IsoDate(StrToNat(m3[3]), MonthOf(m3[1]), StrToNat(m3[2]))
        ELSE ""

C10_DateDisambiguation ==
    (fn = "guess_date" /\ returned) =>
        /\ res = C10_Expected(arg)
        /\ (arg = "25-12-2023" => res = "2023-12-25")
        /\ (arg = "03-04-2023" => res = "2023-03-04")
        /\ (arg = "12.31.99" => res = "2099-12-31")

\* an ambiguous date after which an ISO-like date follows: the ISO pattern decides
C10_Witness ==
    /\ fn = "guess_date" /\ returned
    /\ arg = "25-12-2023" \o " " \o "2024-1-5"
    /\ res = "2024-01-05"

(***************************************************************************)
(* Harness for extract_setlist: the notes are any sequence of at most      *)
(* MaxSetlistLines lines of SetlistLines.                                  *)
(***************************************************************************)
MaxSetlistLines == 3

SetlistLines ==
    {"Setlist:", "Yellow", "yellow", "1. Yellow (live)", "2) Fix You", "0:01 Fix You",
     "[3:05] Yellow; yellow", "Lineage: DVD", ""}

SetlistNotes == {JoinWith(ls, "\n") : ls \in LineSeqs(SetlistLines, MaxSetlistLines)}

InitSetlist ==
    /\ fn = "extract_setlist"
    /\ arg \in SetlistNotes
    /\ res = ""
    /\ returned = FALSE
    /\ WalkIdle
    /\ ShotIdle

CallExtractSetlist ==
    /\ fn = "extract_setlist"
    /\ ~returned
    /\ res' = extract_setlist(arg)
    /\ returned' = TRUE
    /\ UNCHANGED <<fn, arg>>
    /\ UNCHANGED <<wvars, svars>>

NextSetlist == CallExtractSetlist

SpecSetlist == InitSetlist /\ [][NextSetlist]_vars

\* str.split(sep) for a separator of one or more characters
RECURSIVE SplitStr(_, _)
SplitStr(s, sep) ==
    LET hits == {i \in 1..Len(s) : StartsAt(s, i, sep)}
    IN  IF hits = {} THEN <<s>>
        ELSE <<SubSeq(s, 1, MinOf(hits) - 1)>>
             \o SplitStr(SubSeq(s, MinOf(hits) + Len(sep), Len(s)), sep)

(***************************************************************************)
(* C11: the output of extract_setlist holds at most 200 titles, and no two *)
(* of the titles it holds are equal when compared without regard to case:  *)
(* the entries between the delimiters "; " of the output are pairwise      *)
(* different in lower case.                                                *)
(***************************************************************************)
C11_Entries(out) == IF out = "" THEN <<>> ELSE SplitStr(out, "; ")

C12_NoteFiles(D) ==
    LET g == RGlob(D)
    IN  {g[i] : i \in {j \in 1..Len(g) :
                          IsFile(g[j]) /\ ToLower(Suffix(PathName(g[j]))) \in TEXT_EXTS}}

\* the text a note file yields, "" when it yields none
C12_Text(p) ==
    IF NodeAt(p).readable /\ ToLower(Suffix(PathName(p))) \in {".txt", ".nfo"}
    THEN Strip(NodeAt(p).data) ELSE ""

C12_Failing(D) == {p \in C12_NoteFiles(D) : C12_Text(p) = ""}

C12_Readable(D) == {p \in C12_NoteFiles(D) : C12_Text(p) # ""}

C12_Warning(p) == "Could not parse text from " \o PathName(p)

C12_Count(seq, x) == Cardinality({i \in 1..Len(seq) : seq[i] = x})

C12_NormalRow(r, D) ==
    /\ ~C3_IsStub(r, D)
    /\ \A g \in C12_Readable(D) :
           ContainsAny(r.Notes, {"---- " \o RelStr(g, D) \o " ----\n" \o C12_Text(g)})
    /\ \A f \in C12_Failing(D) :
           C12_Count(SplitStr(r.ExtractionWarnings, "; "), C12_Warning(f))
               = Cardinality({h \in C12_Failing(D) : PathName(h) = PathName(f)})

C12_BadNoteDegradesToWarning ==
    \A k \in ThisRun :
        (/\ visits[k].kind \in {"show", "error"}
         /\ C12_Failing(visits[k].path) # {}
         /\ C12_Readable(visits[k].path) # {})
        => /\ visits[k].kind = "error" => representative_media(visits[k].path)[3]
           /\ visits[k].kind = "show" =>
                  /\ Cardinality(RowsOfVisit(k)) = 1
                  /\ \A i \in RowsOfVisit(k) : C12_NormalRow(rows[i], visits[k].path)

\* /v/tapes of Attic has been scanned: a.txt cannot be read, c.nfo is blank,
\* d.doc has no converter, b.txt is read
C12_Witness ==
    /\ pc = "done"
    /\ \E k \in ThisRun :
           /\ visits[k].kind = "show"
           /\ PathStr(visits[k].path) = "/v/tapes"
           /\ Cardinality(C12_Failing(visits[k].path)) = 3
           /\ \E i \in RowsOfVisit(k) :
                  /\ ContainsAny(rows[i].Notes, {"---- b.txt ----\nOlympia"})
                  /\ ContainsAny(rows[i].ExtractionWarnings, {"Could not parse text from a.txt"})
                  /\ rows[i].City = "Paris"

\* ---------------------------------------------------------------------------
\* C13: the representative set of a DVD folder

C13_Members(seq) == {seq[i] : i \in 1..Len(seq)}

\* the VTS_nn_m.VOB files directly inside the VIDEO_TS directory of show folder D
C13_Segments(D) ==
    {p \in C13_Members(IterDir(VtsDir(D))) : IsVobFile(p) /\ IsVtsSegment(PathName(p))}

C13_Group(D, key) == {p \in C13_Segments(D) : VtsKey(PathName(p)) = key}

RECURSIVE C13_Bytes(_)
C13_Bytes(S) ==
    IF S = {} THEN 0
    ELSE LET p == CHOOSE q \in S : TRUE IN SizeOf(p) + C13_Bytes(S \ {p})

C13_Keys(D) == {VtsKey(PathName(p)) : p \in C13_Segments(D)}

C13_HasSegments(D) == VtsDir(D) # <<>> /\ CanList(VtsDir(D)) /\ C13_Segments(D) # {}

\* C13: for a show folder whose VIDEO_TS directory holds segment files, the
\* representative files are exactly the segments of one title group, no other
\* title group has a greater total size, and the files are in ascending order
\* of their numeric segment index.
C13_LargestTitleGroupInOrder ==
    \A k \in ThisRun :
        (visits[k].kind = "show" /\ C13_HasSegments(visits[k].path)) =>
            LET D == visits[k].path
                r == visits[k].rep_files
            IN  /\ \E key \in C13_Keys(D) :
                       /\ C13_Members(r) = C13_Group(D, key)
                       /\ Len(r) = Cardinality(C13_Group(D, key))
                       /\ \A other \in C13_Keys(D) :
                              C13_Bytes(C13_Group(D, other)) <= C13_Bytes(C13_Group(D, key))
                /\ \A i, j \in 1..Len(r) :
                       i < j => VtsIndex(PathName(r[i])) <= VtsIndex(PathName(r[j]))

\* the scan has recorded /v/Muse/wembley, whose VIDEO_TS lists VTS_02_1 (3 bytes)
\* before VTS_01_2 and VTS_01_1 (2 bytes each), with the two segments of VTS_01
C13_Witness ==
    /\ pc = "done"
    /\ \E k \in ThisRun :
           /\ visits[k].kind = "show"
           /\ PathStr(visits[k].path) = "/v/Muse/wembley"
           /\ Cardinality(C13_Keys(visits[k].path)) = 2
           /\ Len(visits[k].rep_files) = 2
           /\ PathName(visits[k].rep_files[1]) = "VTS_01_1.VOB"
           /\ PathName(visits[k].rep_files[2]) = "VTS_01_2.VOB"

\* ---------------------------------------------------------------------------
\* C14: the representative file of a folder without a DVD group

\* the recognized video files directly inside show folder D
C14_DirectVideos(D) == {p \in C13_Members(IterDir(D)) : IsVideoFile(p)}

\* no segment group was found for D: dvd_group_segments returned an empty list
C14_NoGroup(D) == dvd_group_segments(D) = <<<<>>, FALSE>>

\* C14: a recorded show folder without a DVD group has exactly one
\* representative file, which is a video file directly inside the folder and at
\* least as large as every other one there; and a show folder that directly
\* contains a video file has a representative file.
C14_LargestDirectVideo ==
    \A k \in ThisRun :
        visits[k].kind = "show" =>
            LET D == visits[k].path
                r == visits[k].rep_files
            IN  /\ C14_NoGroup(D) =>
                       /\ Len(r) = 1
                       /\ r[1] \in C14_DirectVideos(D)
                       /\ \A p \in C14_DirectVideos(D) : SizeOf(p) <= SizeOf(r[1])
                /\ C14_DirectVideos(D) # {} => r # <<>>

(***************************************************************************)
(* The merge of the technical fields over the segments of a DVD group      *)
(* (scan_roots, the block after representative_media).  The harness draws  *)
(* what parse_media_info returned for each segment, in the order of        *)
(* rep_files, from SegmentInfos.                                           *)
(***************************************************************************)
MaxSegments == 3

\* the keys of media_info other than duration_sec
MergedFields ==
    {"video_codec", "width", "height", "dar", "sar", "fps",
     "audio_codec", "audio_channels", "audio_sample_rate"}

\* parse_media_info's initial info: what it returns when the probe gave nothing
EmptyInfo ==
    [video_codec |-> "", width |-> "", height |-> "", duration_sec |-> "", dar |-> "", sar |-> "",
     fps |-> "", audio_codec |-> "", audio_channels |-> "", audio_sample_rate |-> ""]

\* results of parse_media_info: a failed probe, a stream without codec name and
\* a duration below one second, two complete ones, and an audio-only one
SegmentInfos ==
    {EmptyInfo,
     [EmptyInfo EXCEPT !.width = "720", !.height = "576", !.duration_sec = "0"],
     [video_codec |-> "mpeg2video", width |-> "720", height |-> "576", duration_sec |-> "7",
      dar |-> "4:3", sar |-> "16:15", fps |-> "25.000",
      audio_codec |-> "ac3", audio_channels |-> "2", audio_sample_rate |-> "48000"],
     [video_codec |-> "mpeg1video", width |-> "352", height |-> "240", duration_sec |-> "12",
      dar |-> "", sar |-> "", fps |-> "29.970",
      audio_codec |-> "mp2", audio_channels |-> "6", audio_sample_rate |-> ""],
     [EmptyInfo EXCEPT !.audio_codec = "pcm_s16le", !.audio_channels = "1",
                       !.audio_sample_rate = "44100"]}

\* if info.get(f): media_info[f] = info[f]
LastWins(cur, new) == IF new # "" THEN new ELSE cur

\* if not media_info[f] and info.get(f): media_info[f] = info[f]
FirstWins(cur, new) == IF cur = "" /\ new # "" THEN new ELSE cur

\* one pass of the loop body over the fields other than the duration
MergeStep(media_info, info) ==
    [f \in DOMAIN media_info |->
        IF f \in MergedFields THEN FirstWins(media_info[f], info[f]) ELSE media_info[f]]

\* total_dur += int(info.get("duration_sec") or 0)
DurationOf(info) == IF info.duration_sec = "" THEN 0 ELSE StrToNat(info.duration_sec)

\* the loop over rep_files, then: if total_dur: media_info["duration_sec"] = str(total_dur)
RECURSIVE MergeSegments(_, _, _, _)
MergeSegments(infos, i, media_info, total_dur) ==
    IF i > Len(infos)
    THEN IF total_dur # 0 THEN [media_info EXCEPT !.duration_sec = NatToStr(total_dur)]
         ELSE media_info
    ELSE MergeSegments(infos, i + 1, MergeStep(media_info, infos[i]),
                       total_dur + DurationOf(infos[i]))

\* media_info of the row for a non-empty rep_files whose probes returned infos
segment_media_info(infos, container) ==
    IF container = ".vob" /\ Len(infos) > 1
    THEN MergeSegments(infos, 1, EmptyInfo, 0)
    ELSE infos[1]

InfoSeqs == UNION {[1..n -> SegmentInfos] : n \in 1..MaxSegments}

InitMerge ==
    /\ fn = "segment_media_info"
    /\ arg \in InfoSeqs
    /\ res = ""
    /\ returned = FALSE
    /\ WalkIdle
    /\ ShotIdle

CallSegmentMerge ==
    /\ fn = "segment_media_info"
    /\ ~returned
    /\ res' = segment_media_info(arg, ".vob")
    /\ returned' = TRUE
    /\ UNCHANGED <<fn, arg>>
    /\ UNCHANGED <<wvars, svars>>

NextMerge == CallSegmentMerge

SpecMerge == InitMerge /\ [][NextMerge]_vars

\* ---------------------------------------------------------------------------
\* C15: the technical fields of a group of several segments

\* the value of field f at the lowest-index segment that reports one, or ""
C15_FirstReported(infos, f) ==
    LET having == {i \in 1..Len(infos) : infos[i][f] # ""}
    IN  IF having = {} THEN "" ELSE infos[MinOf(having)][f]

RECURSIVE C15_SumDurations(_)
C15_SumDurations(infos) ==
    IF infos = <<>> THEN 0
    ELSE (IF Head(infos).duration_sec = "" THEN 0 ELSE StrToNat(Head(infos).duration_sec))
         + C15_SumDurations(Tail(infos))

C15_Merged == fn = "segment_media_info" /\ returned /\ Len(arg) > 1

\* C15 as stated: for a group of more than one segment every technical field
\* has the value of the lowest-index segment that reports one, and the
\* duration is the sum of the segments' durations, a segment without a
\* duration counting as 0.
C15_FirstWinsAndDurationSum ==
    C15_Merged =>
        /\ \A f \in MergedFields : res[f] = C15_FirstReported(arg, f)
        /\ res.duration_sec = NatToStr(C15_SumDurations(arg))

\* C15 amended: as above, but the duration is written only when the sum is not
\* 0; when no segment reports a duration of a second or more, the field stays
\* empty.
C15_FirstWinsAndPositiveDurationSum ==
    C15_Merged =>
        /\ \A f \in MergedFields : res[f] = C15_FirstReported(arg, f)
        /\ res.duration_sec = (IF C15_SumDurations(arg) = 0 THEN ""
                               ELSE NatToStr(C15_SumDurations(arg)))

\* three segments: the probe of the first failed, the second has no codec name,
\* the third is complete; fields come from the second and the third
C15_Witness ==
    /\ C15_Merged
    /\ Len(arg) = 3
    /\ arg[1] = EmptyInfo
    /\ arg[2].width = "720" /\ arg[2].video_codec = ""
    /\ arg[3].video_codec = "mpeg1video"
    /\ res.width = "720" /\ res.video_codec = "mpeg1video" /\ res.audio_channels = "6"
    /\ res.duration_sec = "12"

(***************************************************************************)
(* scan_roots runs in one thread and each of its steps ends: a step that   *)
(* can be taken is taken.  Whether scan_roots is called again is up to the *)
(* caller.                                                                 *)
(***************************************************************************)
ScanStep ==
    \/ SkipRoot
    \/ StartRoot
    \/ VisitExcluded
    \/ VisitContainer
    \/ VisitShow
    \/ VisitShowFailed
    \/ Return

\* WF_vars(ScanStep), with ENABLED <<ScanStep>>_vars written out: the guards
\* of the steps cover every state in which scan_roots has not yet returned,
\* and every step changes root_i, pc or visits
ScanFairness == []<>(pc = "done") \/ []<><<ScanStep>>_vars

FairSpec == Init /\ [][Next]_vars /\ ScanFairness

\* ---------------------------------------------------------------------------
\* C16: a root that does not exist

\* the folders at or below d that the walk takes for a show
RECURSIVE C16_Shows(_)
C16_Shows(d) ==
    IF ~CanList(d) \/ IsExcluded(d) THEN {}
    ELSE IF is_show_folder(d)[1] THEN {d}
    ELSE UNION {C16_Shows(c) : c \in C13_Members(DirNames(d))}

C16_Missing == {i \in 1..Len(roots) : ~Exists(roots[i])}

C16_RowsAt(p) == {i \in 1..Len(rows) : rows[i].FolderPath = PathStr(p)}

\* what scan_roots returns when some root is missing: nothing for that root,
\* and a row for every show under every root that exists
C16_Returned ==
    (pc = "done" /\ C16_Missing # {}) =>
        /\ \A i \in C16_Missing :
               \A j \in 1..Len(rows) :
                   /\ rows[j].FolderPath # PathStr(roots[i])
                   /\ ~StartsAt(rows[j].FolderPath, 1, PathStr(roots[i]) \o "/")
        /\ \A i \in (1..Len(roots)) \ C16_Missing :
               \A p \in C16_Shows(roots[i]) : C16_RowsAt(p) # {}

\* C16: when a root of the list does not exist, wherever it stands in the
\* list, scan_roots comes to return, and what it returns holds no row for the
\* missing root and a row for every show under each root that exists.
C16_MissingRootSkipped ==
    /\ []C16_Returned
    /\ (C16_Missing # {}) ~> (pc = "done")

\* the scan of [/gone, /v] has returned with the rows of /v
C16_Witness ==
    /\ pc = "done"
    /\ roots = <<<<"gone">>, <<"v">>>>
    /\ Cardinality(C16_Shows(<<"v">>)) >= 4
    /\ C16_RowsAt(<<"v", "gig">>) # {} \/ C16_RowsAt(<<"v", "tapes">>) # {}

(***************************************************************************)
(* The catalog tables of the merge tools.  A catalog file is its rows and  *)
(* whether it has a SourceCatalog column; of the columns of a row the      *)
(* model keeps those the merge reads.  The rows of a merged table keep the *)
(* index they have in the combined frame.                                  *)
(***************************************************************************)
MaxCatalogRows == 2

\* two shows with one checksum, a show without checksum that repeats a
\* ShowID, and a row with neither checksum nor ShowID
CatalogShows ==
    {[ShowID |-> "s1", ChecksumSHA1 |-> "c1", Artist |-> "Beck"],
     [ShowID |-> "s2", ChecksumSHA1 |-> "c1", Artist |-> "Air"],
     [ShowID |-> "s1", ChecksumSHA1 |-> "", Artist |-> "Air"],
     [ShowID |-> "", ChecksumSHA1 |-> "", Artist |-> "Cake"]}

WithSource(show, label) ==
    [ShowID |-> show.ShowID, ChecksumSHA1 |-> show.ChecksumSHA1, Artist |-> show.Artist,
     SourceCatalog |-> label]

RowSeqs(menu, n) == UNION {[1..k -> menu] : k \in 0..n}

\* the catalog files: without a SourceCatalog column, or with one whose cells
\* are drawn from labels
CatalogFiles(labels) ==
    {[has_source |-> FALSE, rows |-> rs] :
        rs \in RowSeqs({WithSource(s, "") : s \in CatalogShows}, MaxCatalogRows)}
    \cup
    {[has_source |-> TRUE, rows |-> rs] :
        rs \in RowSeqs({WithSource(s, l) : s \in CatalogShows, l \in labels}, MaxCatalogRows)}

\* compute_duplicate_key, for one row: the checksum, or the ShowID when the
\* checksum is empty
compute_duplicate_key(row) == IF row.ChecksumSHA1 # "" THEN row.ChecksumSHA1 ELSE row.ShowID

\* pd.concat([a, b], ignore_index=True) followed by the DuplicateKey column
Combine(a, b) ==
    [i \in 1..(Len(a) + Len(b)) |->
        LET row == IF i <= Len(a) THEN a[i] ELSE b[i - Len(a)]
        IN  [ShowID |-> row.ShowID, ChecksumSHA1 |-> row.ChecksumSHA1, Artist |-> row.Artist,
             SourceCatalog |-> row.SourceCatalog, DuplicateKey |-> compute_duplicate_key(row),
             idx |-> i]]

\* group.index: the rows of combined that have the key, in index order
GroupIndex(combined, key) == {i \in 1..Len(combined) : combined[i].DuplicateKey = key}

\* key_counts[key_counts > 1].index
DupKeys(combined) ==
    {combined[i].DuplicateKey : i \in {j \in 1..Len(combined) :
                                          Cardinality(GroupIndex(combined, combined[j].DuplicateKey)) > 1}}

\* the rows of combined at the indices in keep, with the columns IsPrimary and
\* PrimaryCatalog
Flagged(combined, primary_of(_), keep) ==
    LET flagged == [i \in 1..Len(combined) |->
            [ShowID |-> combined[i].ShowID, ChecksumSHA1 |-> combined[i].ChecksumSHA1,
             Artist |-> combined[i].Artist, SourceCatalog |-> combined[i].SourceCatalog,
             DuplicateKey |-> combined[i].DuplicateKey, idx |-> i,
             IsPrimary |-> IF primary_of(combined[i].DuplicateKey) = i THEN "Yes" ELSE "No",
             PrimaryCatalog |-> combined[primary_of(combined[i].DuplicateKey)].SourceCatalog]]
    IN  SelectSeq(flagged, LAMBDA r : r.idx \in keep)

\* sort_values(by=sort_cols): of Artist, ShowDate and FolderName the tables of
\* the model have Artist; rows with equal keys keep their order
ArtistBefore(a, b) == StrLess(a.Artist, b.Artist)

(***************************************************************************)
(* merge_master_with_untitled.py                                           *)
(***************************************************************************)
\* load_catalog(path, source_label), "" for None
load_catalog(file, source_label) ==
    [i \in 1..Len(file.rows) |->
        WithSource(file.rows[i],
                   IF ~file.has_source
                   THEN (IF source_label # "" THEN source_label ELSE "Master")
                   ELSE IF source_label # "" /\ file.rows[i].SourceCatalog = ""
                   THEN source_label
                   ELSE file.rows[i].SourceCatalog)]

\* primary_idx of a key's group: the first row, or for a duplicated key the
\* first row whose SourceCatalog is not Untitled when there is one
UntitledPrimary(combined, key) ==
    LET idxs == GroupIndex(combined, key)
        non_unt == {i \in idxs : combined[i].SourceCatalog # "Untitled"}
    IN  IF key = "" \/ key \notin DupKeys(combined) THEN MinOf(idxs)
        ELSE IF non_unt # {} THEN MinOf(non_unt)
        ELSE MinOf(idxs)

\* <<new_master, duplicates_report>> as written by merge_master_with_untitled
MergedWithUntitled(combined) ==
    <<StableSort(Flagged(combined, LAMBDA k : UntitledPrimary(combined, k),
                         {i \in 1..Len(combined) :
                             UntitledPrimary(combined, combined[i].DuplicateKey) = i}),
                 ArtistBefore),
      Flagged(combined, LAMBDA k : UntitledPrimary(combined, k),
              {i \in 1..Len(combined) : combined[i].DuplicateKey \in DupKeys(combined)})>>

merge_master_with_untitled(master_file, untitled_file) ==
    MergedWithUntitled(Combine(load_catalog(master_file, ""), load_catalog(untitled_file, "Untitled")))

MasterFiles == CatalogFiles({"BigDaddy", "Untitled"})

UntitledFiles == CatalogFiles({"", "Seagate"})

InitUntitled ==
    /\ fn = "merge_master_with_untitled"
    /\ arg \in MasterFiles \X UntitledFiles
    /\ res = ""
    /\ returned = FALSE
    /\ WalkIdle
    /\ ShotIdle

CallMergeMasterWithUntitled ==
    /\ fn = "merge_master_with_untitled"
    /\ ~returned
    /\ res' = merge_master_with_untitled(arg[1], arg[2])
    /\ returned' = TRUE
    /\ UNCHANGED <<fn, arg>>
    /\ UNCHANGED <<wvars, svars>>

NextUntitled == CallMergeMasterWithUntitled

SpecUntitled == InitUntitled /\ [][NextUntitled]_vars

\* ---------------------------------------------------------------------------
\* C17: the rows of the MASTER are kept

C17_Called == fn = "merge_master_with_untitled" /\ returned

\* the rows of the NEW master that come from index i of the combined frame
C17_Kept(i) == {k \in 1..Len(res[1]) : res[1][k].idx = i}

C17_MasterKeys == {compute_duplicate_key(arg[1].rows[i]) : i \in 1..Len(arg[1].rows)}

\* C17: every row of the MASTER file is in the NEW master, with its ShowID and
\* checksum and flagged primary, whatever the Untitled file holds; and a row of
\* the Untitled file is in the NEW master only if no MASTER row has its
\* duplicate key.
C17_MasterRowsPreserved ==
    C17_Called =>
        /\ \A i \in 1..Len(arg[1].rows) :
               \E k \in C17_Kept(i) :
                   /\ res[1][k].ShowID = arg[1].rows[i].ShowID
                   /\ res[1][k].ChecksumSHA1 = arg[1].rows[i].ChecksumSHA1
                   /\ res[1][k].IsPrimary = "Yes"
        /\ \A j \in 1..Len(arg[2].rows) :
               C17_Kept(Len(arg[1].rows) + j) # {}
                   => compute_duplicate_key(arg[2].rows[j]) \notin C17_MasterKeys

(***************************************************************************)
(* merge_drives_master.py                                                  *)
(***************************************************************************)
\* load_catalog(path, source_name): SourceCatalog is set for every row
load_drive_catalog(file, source_name) ==
    [i \in 1..Len(file.rows) |-> WithSource(file.rows[i], source_name)]

\* a plausible slip: the Seagate row is preferred
DrivesPrimarySeagate(combined, key) ==
    LET idxs == GroupIndex(combined, key)
        sea_rows == {i \in idxs : combined[i].SourceCatalog = "Seagate"}
    IN  IF key = "" \/ key \notin DupKeys(combined) THEN MinOf(idxs)
        ELSE IF sea_rows # {} THEN MinOf(sea_rows)
        ELSE MinOf(idxs)

\* primary_idx of a key's group: the first row, or for a duplicated key the
\* first BigDaddy row when there is one
DrivesPrimary(combined, key) ==
    LET idxs == GroupIndex(combined, key)
        big_rows == {i \in idxs : combined[i].SourceCatalog = "BigDaddy"}
    IN  IF key = "" \/ key \notin DupKeys(combined) THEN MinOf(idxs)
        ELSE IF big_rows # {} THEN MinOf(big_rows)
        ELSE MinOf(idxs)

\* <<master_unique, duplicates_report>> as written by merge_catalogs
MergedDrives(combined) ==
    <<StableSort(Flagged(combined, LAMBDA k : DrivesPrimary(combined, k),
                         {i \in 1..Len(combined) :
                             DrivesPrimary(combined, combined[i].DuplicateKey) = i}),
                 ArtistBefore),
      Flagged(combined, LAMBDA k : DrivesPrimary(combined, k),
              {i \in 1..Len(combined) : combined[i].DuplicateKey \in DupKeys(combined)})>>

merge_catalogs(big_file, seagate_file) ==
    MergedDrives(Combine(load_drive_catalog(big_file, "BigDaddy"),
                         load_drive_catalog(seagate_file, "Seagate")))

DriveFiles == CatalogFiles({"Seagate"})

InitDrives ==
    /\ fn = "merge_catalogs"
    /\ arg \in DriveFiles \X DriveFiles
    /\ res = ""
    /\ returned = FALSE
    /\ WalkIdle
    /\ ShotIdle

CallMergeCatalogs ==
    /\ fn = "merge_catalogs"
    /\ ~returned
    /\ res' = merge_catalogs(arg[1], arg[2])
    /\ returned' = TRUE
    /\ UNCHANGED <<fn, arg>>
    /\ UNCHANGED <<wvars, svars>>

NextDrives == CallMergeCatalogs

SpecDrives == InitDrives /\ [][NextDrives]_vars

\* ---------------------------------------------------------------------------
\* C18: one row for each key

C18_Called == fn = "merge_catalogs" /\ returned

\* the key as the claim defines it
C18_Key(row) == IF row.ChecksumSHA1 # "" THEN row.ChecksumSHA1 ELSE row.ShowID

\* the input rows as <<file, position>>, file 1 being BigDaddy
C18_Inputs == {<<f, i>> : f \in {1, 2}, i \in 1..MaxCatalogRows}

C18_InputRows == {x \in C18_Inputs : x[2] <= Len(arg[x[1]].rows)}

C18_InputRow(x) == arg[x[1]].rows[x[2]]

\* where the input row x stands in the combined frame
C18_Idx(x) == IF x[1] = 1 THEN x[2] ELSE Len(arg[1].rows) + x[2]

C18_WithKey(k) == {x \in C18_InputRows : C18_Key(C18_InputRow(x)) = k}

C18_Keys == {C18_Key(C18_InputRow(x)) : x \in C18_InputRows}

\* the output row at position n of table t is the input row x
C18_IsRow(t, n, x) ==
    /\ res[t][n].idx = C18_Idx(x)
    /\ res[t][n].ShowID = C18_InputRow(x).ShowID
    /\ res[t][n].ChecksumSHA1 = C18_InputRow(x).ChecksumSHA1
    /\ res[t][n].Artist = C18_InputRow(x).Artist

\* C18: the master has exactly one row for every key of the two inputs, and
\* that row is one of the input rows with the key, from BigDaddy whenever the
\* key is repeated and BigDaddy has it; the duplicates report holds exactly the
\* input rows whose key occurs more than once, each once.
C18_OneRowPerKey ==
    C18_Called =>
        /\ \A k \in C18_Keys :
               /\ Cardinality({n \in 1..Len(res[1]) : C18_Key(res[1][n]) = k}) = 1
               /\ \A n \in 1..Len(res[1]) :
                      C18_Key(res[1][n]) = k =>
                          /\ \E x \in C18_WithKey(k) : C18_IsRow(1, n, x)
                          /\ (Cardinality(C18_WithKey(k)) > 1 /\ \E x \in C18_WithKey(k) : x[1] = 1)
                                 => \E x \in C18_WithKey(k) : x[1] = 1 /\ C18_IsRow(1, n, x)
        /\ \A n \in 1..Len(res[1]) : C18_Key(res[1][n]) \in C18_Keys
        /\ \A x \in C18_InputRows :
               Cardinality({n \in 1..Len(res[2]) : C18_IsRow(2, n, x)})
                   = IF Cardinality(C18_WithKey(C18_Key(C18_InputRow(x)))) > 1 THEN 1 ELSE 0
        /\ \A n \in 1..Len(res[2]) : \E x \in C18_InputRows : C18_IsRow(2, n, x)

\* BigDaddy holds a show with checksum c1 after a row without checksum, and
\* Seagate another show with checksum c1: the master keeps BigDaddy's row
C18_Witness ==
    /\ C18_Called
    /\ Len(arg[1].rows) = 2 /\ Len(arg[2].rows) = 2
    /\ arg[1].rows[2].ChecksumSHA1 = "c1" /\ arg[1].rows[1].ChecksumSHA1 = ""
    /\ arg[2].rows[1].ChecksumSHA1 = "c1" /\ arg[2].rows[1].ShowID # arg[1].rows[2].ShowID
    /\ \E n \in 1..Len(res[1]) :
           /\ res[1][n].DuplicateKey = "c1"
           /\ res[1][n].SourceCatalog = "BigDaddy"
           /\ res[1][n].ShowID = arg[1].rows[2].ShowID
    /\ Len(res[2]) >= 2

(***************************************************************************)
(* merge_seagate_with_techscan.py.  Of the columns the model keeps ShowID  *)
(* and Artist, which are not in TECH_COLUMNS, and Width and ChecksumSHA1,  *)
(* which are; both files have all four.  The manual file holds every       *)
(* ShowID once, and a ShowID that the tech scan repeats is one the manual  *)
(* file has: in the cases left out base is a frame of several rows, not a  *)
(* row.                                                                    *)
(***************************************************************************)
TECH_COLUMNS == {"Width", "ChecksumSHA1"}

ManualRows ==
    [ShowID : {"s1", "s2"}, Artist : {"", "Beck"}, Width : {"", "720"}, ChecksumSHA1 : {"", "c1"}]

TechRows ==
    [ShowID : {"s1", "s2"}, Artist : {"", "Muse "}, Width : {"", "480"}, ChecksumSHA1 : {"c2"}]

\* set(df.index)
SheetIds(sheet) == {sheet[i].ShowID : i \in 1..Len(sheet)}

\* df.loc[sid]: the positions of the rows with the ShowID
RowsAt(sheet, sid) == {i \in 1..Len(sheet) : sheet[i].ShowID = sid}

ManualSheets ==
    {s \in RowSeqs(ManualRows, MaxCatalogRows) : \A sid \in SheetIds(s) : Cardinality(RowsAt(s, sid)) = 1}

TechSheets == RowSeqs(TechRows, MaxCatalogRows)

\* str.rjust(w)
RECURSIVE RJust(_, _)
RJust(s, w) == IF Len(s) >= w THEN s ELSE RJust(" " \o s, w)

\* str(series) for the column col of the rows at the positions in at, which
\* share the ShowID sid: the name of the index, a line for each row with the
\* value right-justified, and the name and type of the series
SeriesRepr(sheet, at, sid, col) ==
    LET w == MaxOf({Len(sheet[i][col]) : i \in at})
        lines == [k \in 1..Cardinality(at) |->
                     LET i == CHOOSE j \in at : Cardinality({h \in at : h < j}) = k - 1
                     IN  sid \o "    " \o RJust(sheet[i][col], w)]
    IN  "ShowID\n" \o JoinWith(lines, "\n") \o "\nName: " \o col \o ", dtype: object"

\* str(new.get(col, "")).strip(): new is a row when the ShowID occurs once in
\* the tech scan, and a frame, whose column is a series, when it is repeated
NewValue(tech, sid, col) ==
    IF Cardinality(RowsAt(tech, sid)) = 1
    THEN Strip(tech[CHOOSE i \in RowsAt(tech, sid) : TRUE][col])
    ELSE Strip(SeriesRepr(tech, RowsAt(tech, sid), sid, col))

\* the body of the loop over all_cols for one column of base
MergedCell(base, tech, sid, col) ==
    IF col \in TECH_COLUMNS
    THEN IF col = "ChecksumSHA1" THEN base[col]
         ELSE IF NewValue(tech, sid, col) # "" THEN NewValue(tech, sid, col)
         ELSE base[col]
    ELSE IF Strip(base[col]) = "" THEN NewValue(tech, sid, col)
    ELSE base[col]

\* the row appended to merged_rows for sid
MergedRow(manual, tech, sid) ==
    LET base == IF sid \in SheetIds(manual) THEN manual[CHOOSE i \in RowsAt(manual, sid) : TRUE]
                ELSE tech[CHOOSE i \in RowsAt(tech, sid) : TRUE]
    IN  IF sid \in SheetIds(tech)
        THEN [col \in DOMAIN base |-> MergedCell(base, tech, sid, col)]
        ELSE base

\* sorted(ids)
RECURSIVE SortedIds(_)
SortedIds(ids) ==
    IF ids = {} THEN <<>>
    ELSE LET least == CHOOSE x \in ids : \A y \in ids \ {x} : StrLess(x, y)
         IN  <<least>> \o SortedIds(ids \ {least})

\* the table that enrich_seagate writes
enrich_seagate(manual, tech) ==
    LET all_ids == SortedIds(SheetIds(manual) \cup SheetIds(tech))
    IN  StableSort([k \in 1..Len(all_ids) |-> MergedRow(manual, tech, all_ids[k])], ArtistBefore)

EnrichInputs ==
    {p \in ManualSheets \X TechSheets :
        \A sid \in SheetIds(p[2]) : Cardinality(RowsAt(p[2], sid)) > 1 => sid \in SheetIds(p[1])}

InitEnrich ==
    /\ fn = "enrich_seagate"
    /\ arg \in EnrichInputs
    /\ res = ""
    /\ returned = FALSE
    /\ WalkIdle
    /\ ShotIdle

CallEnrichSeagate ==
    /\ fn = "enrich_seagate"
    /\ ~returned
    /\ res' = enrich_seagate(arg[1], arg[2])
    /\ returned' = TRUE
    /\ UNCHANGED <<fn, arg>>
    /\ UNCHANGED <<wvars, svars>>

NextEnrich == CallEnrichSeagate

SpecEnrich == InitEnrich /\ [][NextEnrich]_vars

\* ---------------------------------------------------------------------------
\* C19: manual edits and checksums are kept

C19_Called == fn = "enrich_seagate" /\ returned

C19_Out(sid) == {k \in 1..Len(res) : res[k].ShowID = sid}

\* C19: the output has exactly one row for every ShowID of the two inputs and
\* no others; and for a ShowID of the manual file that row has the manual
\* checksum, the manual value of every column outside TECH_COLUMNS that is not
\* empty in the manual file, and in a technical column either the manual value
\* or a non-empty value that the tech scan has for the ShowID in that column.
C19_ManualEditsPreserved ==
    C19_Called =>
        /\ \A sid \in SheetIds(arg[1]) \cup SheetIds(arg[2]) : Cardinality(C19_Out(sid)) = 1
        /\ \A k \in 1..Len(res) : res[k].ShowID \in SheetIds(arg[1]) \cup SheetIds(arg[2])
        /\ \A i \in 1..Len(arg[1]) :
               \A k \in C19_Out(arg[1][i].ShowID) :
                   /\ res[k].ChecksumSHA1 = arg[1][i].ChecksumSHA1
                   /\ arg[1][i].Artist # "" => res[k].Artist = arg[1][i].Artist
                   /\ res[k].Width # arg[1][i].Width =>
                          /\ res[k].Width # ""
                          /\ \E j \in RowsAt(arg[2], arg[1][i].ShowID) : res[k].Width = arg[2][j].Width

(***************************************************************************)
(* test_screenshots_by_drive.py: the loops of main over the rows that      *)
(* passed the drive filter and over the shots of a row.  Of a row the      *)
(* model keeps ShowID, ChecksumSHA1 and whether get_rep_video_paths finds  *)
(* a usable file.  ffmpeg is a process outside the program: it may write   *)
(* the image or not, and exit with 0 or not.                               *)
(***************************************************************************)
MaxShotRows == 2

\* the configuration.  The source takes 4 shots of a show; the model takes 2,
\* a bound on the shot loop, whose body is the same for every shot
SHOTS_PER_SHOW == 2

OUTPUT_FORMAT == "jpg"

\* two shows with one checksum, a show without checksum, a row without any
\* id, and a show whose video files are not on disk
ShotRows ==
    {[ShowID |-> "s1", ChecksumSHA1 |-> "c1", has_video |-> TRUE],
     [ShowID |-> "s2", ChecksumSHA1 |-> " c1", has_video |-> TRUE],
     [ShowID |-> "s1", ChecksumSHA1 |-> "", has_video |-> TRUE],
     [ShowID |-> "", ChecksumSHA1 |-> "", has_video |-> TRUE],
     [ShowID |-> "s2", ChecksumSHA1 |-> "", has_video |-> FALSE]}

\* canonical_id: the checksum if present, else the ShowID, both stripped
canonical_id(row) ==
    IF Strip(row.ChecksumSHA1) # "" THEN Strip(row.ChecksumSHA1) ELSE Strip(row.ShowID)

\* f"{cid}_{shot_idx+1:02d}.{ext}"
OutName(cid, idx) == cid \o "_" \o ZeroPad(NatToStr(idx + 1), 2) \o "." \o ToLower(OUTPUT_FORMAT)

\* images that may lie in OUTPUT_DIR before the run, e.g. fixed by hand
EarlierImages == {"c1_01.jpg", "s1_02.jpg"}

InitShots ==
    /\ HarnessIdle
    /\ WalkIdle
    /\ sample_rows \in UNION {[1..n -> ShotRows] : n \in 1..MaxShotRows}
    /\ out_dir \in SUBSET EarlierImages
    /\ found_images = out_dir
    /\ row_i = 1
    /\ shot_idx = 0
    /\ log_rows = <<>>
    /\ ffmpeg_runs = <<>>
    /\ shot_pc = "shots"

\* the row and the output name the loops are at
ThisRow == sample_rows[row_i]

ThisOut == OutName(canonical_id(ThisRow), shot_idx)

\* a plausible slip: the test for an existing output is left out
OutPathNeverExists(out_name) == FALSE

\* out_path.exists()
OutPathExists(out_name) == out_name \in out_dir

LogRow(cid, shot, status) ==
    [row |-> row_i, ShowID |-> ThisRow.ShowID, CanonicalID |-> cid, ShotIndex |-> shot,
     Status |-> status]

\* continue in the loop over the rows
NextShow ==
    /\ row_i' = row_i + 1
    /\ shot_idx' = 0

\* continue in the loop over the shots, or its end
NextShot ==
    IF shot_idx + 1 < SHOTS_PER_SHOW
    THEN row_i' = row_i /\ shot_idx' = shot_idx + 1
    ELSE NextShow

InShotLoop == shot_pc = "shots" /\ row_i <= Len(sample_rows)

ShotFrame == UNCHANGED <<hvars, wvars, sample_rows, shot_pc, found_images>>

\* if not cid
SkipNoId ==
    /\ InShotLoop
    /\ canonical_id(ThisRow) = ""
    /\ log_rows' = Append(log_rows, LogRow("", 0, "SKIP_NO_ID"))
    /\ NextShow
    /\ UNCHANGED <<out_dir, ffmpeg_runs>>
    /\ ShotFrame

\* if not files
SkipNoVideo ==
    /\ InShotLoop
    /\ canonical_id(ThisRow) # ""
    /\ ~ThisRow.has_video
    /\ log_rows' = Append(log_rows, LogRow(canonical_id(ThisRow), 0, "SKIP_NO_VIDEO"))
    /\ NextShow
    /\ UNCHANGED <<out_dir, ffmpeg_runs>>
    /\ ShotFrame

\* if out_path.exists()
SkipExists ==
    /\ InShotLoop
    /\ canonical_id(ThisRow) # ""
    /\ ThisRow.has_video
    /\ OutPathExists(ThisOut)
    /\ log_rows' = Append(log_rows, LogRow(canonical_id(ThisRow), shot_idx + 1, "SKIP_EXISTS"))
    /\ NextShot
    /\ UNCHANGED <<out_dir, ffmpeg_runs>>
    /\ ShotFrame

\* what a run of ffmpeg leaves behind
FfmpegRan(status, wrote) ==
    /\ ffmpeg_runs' = Append(ffmpeg_runs, [row |-> row_i, out_name |-> ThisOut, wrote |-> wrote,
                                           existed |-> ThisOut \in out_dir, status |-> status])
    /\ out_dir' = IF wrote THEN out_dir \cup {ThisOut} ELSE out_dir
    /\ log_rows' = Append(log_rows, LogRow(canonical_id(ThisRow), shot_idx + 1, status))

\* subprocess.run returns: ffmpeg has exited with 0, with or without text on
\* stderr; it has written the image unless it found nothing to encode, which
\* it reports on stderr
CaptureOk ==
    /\ InShotLoop
    /\ canonical_id(ThisRow) # ""
    /\ ThisRow.has_video
    /\ ~OutPathExists(ThisOut)
    /\ \E outcome \in {<<"OK", TRUE>>, <<"OK_WITH_WARN", TRUE>>, <<"OK_WITH_WARN", FALSE>>} :
           FfmpegRan(outcome[1], outcome[2])
    /\ NextShot
    /\ ShotFrame

\* subprocess.run raises CalledProcessError
CaptureFailed ==
    /\ InShotLoop
    /\ canonical_id(ThisRow) # ""
    /\ ThisRow.has_video
    /\ ~OutPathExists(ThisOut)
    /\ FfmpegRan("ERROR_FFMPEG", FALSE)
    /\ NextShot
    /\ ShotFrame

\* the loops are over: the report is written
WriteReport ==
    /\ shot_pc = "shots"
    /\ row_i > Len(sample_rows)
    /\ shot_pc' = "done"
    /\ UNCHANGED <<hvars, wvars, sample_rows, out_dir, row_i, shot_idx, log_rows, found_images,
                   ffmpeg_runs>>

NextShots ==
    \/ SkipNoId
    \/ SkipNoVideo
    \/ SkipExists
    \/ CaptureOk
    \/ CaptureFailed
    \/ WriteReport

SpecShots == InitShots /\ [][NextShots]_vars

\* ---------------------------------------------------------------------------
\* C20: no capture over an existing image

\* the shots of the rows that the loops have dealt with, as <<row, shot_idx>>
C20_Handled ==
    {x \in (1..Len(sample_rows)) \X (0..(SHOTS_PER_SHOW - 1)) :
        /\ canonical_id(sample_rows[x[1]]) # ""
        /\ sample_rows[x[1]].has_video
        /\ x[1] < row_i \/ (x[1] = row_i /\ x[2] < shot_idx)}

C20_Name(x) == OutName(canonical_id(sample_rows[x[1]]), x[2])

C20_Logged(x, statuses) ==
    {k \in 1..Len(log_rows) :
        /\ log_rows[k].row = x[1]
        /\ log_rows[k].ShotIndex = x[2] + 1
        /\ log_rows[k].Status \in statuses}

C20_Writes(name) == {k \in 1..Len(ffmpeg_runs) : ffmpeg_runs[k].out_name = name /\ ffmpeg_runs[k].wrote}

\* C20: ffmpeg is never run for an output name that exists; a shot whose
\* image was in OUTPUT_DIR at the start is logged SKIP_EXISTS, ffmpeg is not
\* run for its name and the image stays; and of the shots of one canonical id
\* and one shot index at most one run of ffmpeg writes the image.
C20_NoCaptureOverExisting ==
    /\ \A k \in 1..Len(ffmpeg_runs) : ~ffmpeg_runs[k].existed
    /\ found_images \subseteq out_dir
    /\ \A x \in C20_Handled :
           C20_Name(x) \in found_images =>
               /\ C20_Logged(x, {"SKIP_EXISTS"}) # {}
               /\ \A k \in 1..Len(ffmpeg_runs) : ffmpeg_runs[k].out_name # C20_Name(x)
    /\ \A x \in C20_Handled : Cardinality(C20_Writes(C20_Name(x))) <= 1

\* two rows with different ShowIDs share the checksum c1: the first shot was
\* in OUTPUT_DIR and is skipped for both, the second is captured for the first
\* row and skipped for the second
C20_Witness ==
    /\ shot_pc = "done"
    /\ Len(sample_rows) = 2
    /\ sample_rows[1].ShowID # sample_rows[2].ShowID
    /\ canonical_id(sample_rows[1]) = "c1" /\ canonical_id(sample_rows[2]) = "c1"
    /\ "c1_01.jpg" \in found_images
    /\ C20_Logged(<<1, 0>>, {"SKIP_EXISTS"}) # {} /\ C20_Logged(<<2, 0>>, {"SKIP_EXISTS"}) # {}
    /\ C20_Logged(<<1, 1>>, {"OK", "OK_WITH_WARN"}) # {}
    /\ C20_Logged(<<2, 1>>, {"SKIP_EXISTS"}) # {}
    /\ Cardinality(C20_Writes("c1_02.jpg")) = 1

\* ---------------------------------------------------------------------------
\* C21: every successful tier of parse_location returns its hint tag

C21_Supplies(r) == r.venue # "" \/ r.city # "" \/ r.country # "" \/ r.festival # ""

C21_IsLocTag(h) == Len(h) > 4 /\ SubSeq(h, 1, 4) = "loc:"

\* C21: a result of parse_location that supplies a venue, a city, a country
\* or a festival carries a hint tag that starts with "loc:".
C21_SuccessfulTierHasHint ==
    (fn = "parse_location" /\ returned) => (C21_Supplies(res) => C21_IsLocTag(res.hint))

(***************************************************************************)
(* Harness for the location and event steps of scan_roots on the notes and *)
(* the name of one show folder: parse_location, then                       *)
(* extract_event_and_split_venue on the venue it found.  The notes are at  *)
(* most MaxEventLines lines of EventLines.                                 *)
(***************************************************************************)
MaxEventLines == 3

EventLines ==
    {"Muse - Arena", "Austin - TX", "Big Show - Hall", "The Forum, Inglewood, CA",
     "Rock Festival - Zilker Park", "Olive Garden", ""}

EventNotes == {JoinWith(ls, "\n") : ls \in LineSeqs(EventLines, MaxEventLines)}

\* what the two steps leave in the row
RefinedLocation(loc, ev) ==
    [loc |-> loc,
     EventOrFestival |-> RefinedEvent(loc, ev),
     VenueName |-> RefinedVenue(loc, ev),
     City |-> loc.city,
     Country |-> loc.country,
     warnings |-> LocationHints(loc, ev)]

LocateShow(notes, loc) == RefinedLocation(loc, extract_event_and_split_venue(notes, loc.venue))

InitEvent ==
    /\ fn = "locate_show"
    /\ arg \in {<<n, f>> : n \in EventNotes, f \in LocFolders}
    /\ res = <<>>
    /\ returned = FALSE
    /\ WalkIdle
    /\ ShotIdle

CallLocateShow ==
    /\ fn = "locate_show"
    /\ ~returned
    /\ res' = LocateShow(arg[1], parse_location(arg[1], arg[2]))
    /\ returned' = TRUE
    /\ UNCHANGED <<fn, arg>>
    /\ UNCHANGED <<wvars, svars>>

NextEvent == CallLocateShow

SpecEvent == InitEvent /\ [][NextEvent]_vars

\* ---------------------------------------------------------------------------
\* C22: the event line overrides the festival, and the venue only if empty

\* the places of a dash with white space on both sides
C22_Dashes(ln) ==
    {d \in 2..(Len(ln) - 1) : IsSpace(ChAt(ln, d - 1)) /\ ChAt(ln, d) = "-" /\ IsSpace(ChAt(ln, d + 1))}

C22_Keywords == {"concert", "festival", "live", "rockpalast", "tour", "show"}

C22_HasKeyword(ln) ==
    \E i \in 1..Len(ln) : \E j \in i..Len(ln) : ToLower(SubSeq(ln, i, j)) \in C22_Keywords

\* the lines of the shape "event - venue" that carry a keyword
C22_EventLines(lines) ==
    {k \in 1..Len(lines) : C22_Dashes(Strip(lines[k])) # {} /\ C22_HasKeyword(lines[k])}

C22_First(S) == CHOOSE k \in S : \A j \in S : k <= j

C22_EventPart(ln) == Strip(SubSeq(ln, 1, C22_First(C22_Dashes(ln)) - 1))

C22_VenuePart(ln) == Strip(SubSeq(ln, C22_First(C22_Dashes(ln)) + 1, Len(ln)))

C22_Called == fn = "locate_show" /\ returned

\* C22: when the notes have an event line with a keyword, EventOrFestival is
\* the event part of the first one, VenueName is its venue part if the
\* location gave no venue and the venue of the location otherwise, and City
\* and Country are those of the location.
C22_EventLineRefinesRow ==
    C22_Called =>
        LET lines == splitlines(arg[1])
            E == C22_EventLines(lines)
        IN  /\ res.City = res.loc.city
            /\ res.Country = res.loc.country
            /\ E # {} =>
                   LET ln == Strip(lines[C22_First(E)])
                   IN  /\ res.EventOrFestival = C22_EventPart(ln)
                       /\ res.VenueName = IF res.loc.venue = "" THEN C22_VenuePart(ln)
                                          ELSE res.loc.venue

\* the event line "Big Show - Hall" overrides the festival Muse that the
\* location took from "Muse - Arena", and leaves its venue Arena
C22_Witness ==
    /\ C22_Called
    /\ res.loc.festival = "Muse"
    /\ res.loc.venue = "Arena"
    /\ res.EventOrFestival = "Big Show"
    /\ res.VenueName = "Arena"
    /\ res.City = "Austin"

\* the venue of the event line fills the empty venue of the location
C22_WitnessFilled ==
    /\ C22_Called
    /\ res.loc.venue = ""
    /\ res.loc.festival = "Festival"
    /\ res.EventOrFestival = "Rock Festival"
    /\ res.VenueName = "Zilker Park"

(***************************************************************************)
(* Harness for clean_song_title: the line is one of SongPrefixes followed  *)
(* by one of SongBodies.                                                   *)
(***************************************************************************)
SongPrefixes == {"", "1. ", "2) ", "0:01 ", "[3:05] ", "12:34 - ", "- ", " "}

SongBodies ==
    {"Yellow", "Fix You", "Video intro", "Source: DVD", "Menu", "www.site.com", "Poster Boy (live)",
     "taper", "x", ""}

SongLines == {p \o b : p \in SongPrefixes, b \in SongBodies}

InitSong ==
    /\ fn = "clean_song_title"
    /\ arg \in SongLines
    /\ res = ""
    /\ returned = FALSE
    /\ WalkIdle
    /\ ShotIdle

CallCleanSongTitle ==
    /\ fn = "clean_song_title"
    /\ ~returned
    /\ res' = clean_song_title(arg)
    /\ returned' = TRUE
    /\ UNCHANGED <<fn, arg>>
    /\ UNCHANGED <<wvars, svars>>

NextSong == CallCleanSongTitle

SpecSong == InitSong /\ [][NextSong]_vars

\* ---------------------------------------------------------------------------
\* C23: no title from a line with a non-song hint keyword

C23_HasHint(line) ==
    \E i \in 1..Len(line) : \E j \in i..Len(line) : ToLower(SubSeq(line, i, j)) \in NON_SONG_HINTS

ArtistFolders ==
    {<<"v", "Muse", "wembley">>,
     <<"v", "r.e.m", "Oasis 1996">>,
     <<"v", "misc", "oasis and muse 1996">>,
     <<"v", "misc", "Muse_Oasis">>,
     <<"v", "rhcp", "slane 2003">>,
     <<"v", "Guns N Roses - 1992", "paris">>,
     <<"v", "misc", "tape 7">>,
     <<"v", " misc ", "tape 7">>,
     <<"v", "tape 7", "VIDEO_TS">>,
     <<"v", "Video_TS", "tape 7">>,
     <<"tape 7">>}

ArtistNotes == {"", "Oasis\nsupport: Muse", "STP, 1994", "the Stone Temple Pilots", "soundboard"}

InitArtist ==
    /\ fn = "resolve_artist"
    /\ arg \in {<<f, n>> : f \in ArtistFolders, n \in ArtistNotes}
    /\ res = ""
    /\ returned = FALSE
    /\ WalkIdle
    /\ ShotIdle

CallResolveArtist ==
    /\ fn = "resolve_artist"
    /\ ~returned
    /\ res' = resolve_artist(arg[1], arg[2])
    /\ returned' = TRUE
    /\ UNCHANGED <<fn, arg>>
    /\ UNCHANGED <<wvars, svars>>

NextArtist == CallResolveArtist

SpecArtist == InitArtist /\ [][NextArtist]_vars

\* ---------------------------------------------------------------------------
\* C24: the order of the strategies of resolve_artist

\* the names that are searched for: the canonical names and the aliases
C24_Names == BAND_NAMES \o BAND_ALIAS_KEYS

C24_Canonical(k) ==
    IF k <= Len(BAND_NAMES) THEN BAND_NAMES[k] ELSE BAND_ALIAS_NAMES[k - Len(BAND_NAMES)]

\* the names found in a text, and whether a is the canonical name of a
\* longest one of them
C24_Found(text) ==
    {k \in 1..Len(C24_Names) :
        PatternFound(normalize_for_match(C24_Names[k]), normalize_for_match(text))}

C24_IsLongest(a, found) ==
    \E k \in found :
        /\ a = C24_Canonical(k)
        /\ \A j \in found :
               Len(normalize_for_match(C24_Names[j])) <= Len(normalize_for_match(C24_Names[k]))

\* the canonical names that a part of the path is, in normal form
C24_Exact(folder) ==
    {BAND_NAMES[k] : k \in {k \in 1..Len(BAND_NAMES) :
        \E i \in 1..Len(folder) :
            normalize_for_match(folder[i]) = normalize_for_match(BAND_NAMES[k])}}

C24_Expected(a, folder, notes, in_folder, in_parent, in_notes, parent) ==
    IF C24_Exact(folder) # {} THEN a \in C24_Exact(folder)
    ELSE IF in_folder # {} THEN C24_IsLongest(a, in_folder)
    ELSE IF in_parent # {} THEN C24_IsLongest(a, in_parent)
    ELSE IF in_notes # {} THEN C24_IsLongest(a, in_notes)
    ELSE IF parent # "" /\ ToLower(parent) \notin {"video_ts", "audio_ts"} THEN a = parent
    ELSE a = PathName(folder)

C24_Called == fn = "resolve_artist" /\ returned

\* C24: the artist is what the first strategy that succeeds gives: a
\* canonical name that a part of the path is; else the canonical name of a
\* longest name found in the folder name, else in the parent's name, else in
\* the notes; else the parent's name unless empty, video_ts or audio_ts; else
\* the folder's name.
C24_FirstStrategyWins ==
    C24_Called =>
        C24_Expected(res, arg[1], arg[2],
                     C24_Found(PathName(arg[1])),
                     C24_Found(PathName(PathParent(arg[1]))),
                     C24_Found(arg[2]),
                     Strip(PathName(PathParent(arg[1]))))

\* Oasis, the longer name, is taken from a folder name where Muse stands
\* first, although the parent's name and the notes hold names too
C24_Witness ==
    /\ C24_Called
    /\ arg[1] = <<"v", "misc", "Muse_Oasis">>
    /\ arg[2] = "STP, 1994"
    /\ res = "Oasis"

\* the alias in the parent's name gives the canonical name
C24_WitnessAlias ==
    /\ C24_Called
    /\ arg[1] = <<"v", "rhcp", "slane 2003">>
    /\ res = "Red Hot Chili Peppers"

(***************************************************************************)
(* Harness for _folder_name_loc_fallback: the folder name is a date token  *)
(* or nothing, a joiner, and the rest of the name.                         *)
(***************************************************************************)
FolderDates == {"", "2006-07-01", "2006_07_01", "06-07-01"}

FolderJoiners == {"", " ", "_", "-", " - "}

FolderRests ==
    {"", "Forum", "Forum - Inglewood", "Forum, Inglewood, USA", "Forum | Inglewood - CA - USA"}

FolderNames == {d \o j \o r : d \in FolderDates, j \in FolderJoiners, r \in FolderRests}

InitFolder ==
    /\ fn = "folder_name_loc_fallback"
    /\ arg \in FolderNames
    /\ res = NoLoc
    /\ returned = FALSE
    /\ WalkIdle
    /\ ShotIdle

CallFolderNameLocFallback ==
    /\ fn = "folder_name_loc_fallback"
    /\ ~returned
    /\ res' = folder_name_loc_fallback(arg)
    /\ returned' = TRUE
    /\ UNCHANGED <<fn, arg>>
    /\ UNCHANGED <<wvars, svars>>

NextFolder == CallFolderNameLocFallback

SpecFolder == InitFolder /\ [][NextFolder]_vars

\* ---------------------------------------------------------------------------
\* C25: the date token of a folder name is no part of the location

\* the name begins with YYYY-MM-DD or YYYY_MM_DD
C25_BeginsWithDate(name) ==
    /\ AllDigits(name, 1, 4) /\ ChAt(name, 5) \in {"-", "_"}
    /\ AllDigits(name, 6, 2) /\ ChAt(name, 8) \in {"-", "_"}
    /\ AllDigits(name, 9, 2) /\ ~IsDigit(ChAt(name, 11))

\* the date token and its components
C25_DateParts(name) ==
    {SubSeq(name, 1, 10), SubSeq(name, 1, 4), SubSeq(name, 6, 7), SubSeq(name, 9, 10),
     SubSeq(name, 1, 7), SubSeq(name, 6, 10)}

\* C25: of a folder name that begins with a date token, neither the token nor
\* a component of it is the venue, the city or the country.
C25_DateNeverInLocation ==
    (fn = "folder_name_loc_fallback" /\ returned /\ C25_BeginsWithDate(arg)) =>
        {res.venue, res.city, res.country} \cap C25_DateParts(arg) = {}

\* ---------------------------------------------------------------------------
\* C26: DuplicateOf names an earlier, different row that is no duplicate

\* the rows that row i may name as its original: scanned earlier, with the
\* same checksum and an empty DuplicateOf
C26_Originals(i) ==
    {j \in 1..Len(rows) :
        /\ rows[j].visit < rows[i].visit
        /\ rows[j].ChecksumSHA1 = rows[i].ChecksumSHA1
        /\ rows[j].DuplicateOf = ""}

\* C26: a non-empty DuplicateOf is not the ShowID of its own row; it is the
\* ShowID of a row scanned earlier in the run that has the same ChecksumSHA1
\* and an empty DuplicateOf.
C26_DuplicateOfEarlierOriginal ==
    \A i \in 1..Len(rows) :
        rows[i].DuplicateOf # "" =>
            /\ rows[i].DuplicateOf # rows[i].ShowID
            /\ \E j \in C26_Originals(i) : rows[j].ShowID = rows[i].DuplicateOf

\* the same for the rows whose ShowID no other row of the run has
C26_DuplicateOfEarlierOriginalUnrepeated ==
    \A i \in 1..Len(rows) :
        (rows[i].DuplicateOf # "" /\ \A h \in 1..Len(rows) : rows[h].ShowID = rows[i].ShowID => h = i)
        => /\ rows[i].DuplicateOf # rows[i].ShowID
           /\ \E j \in C26_Originals(i) : rows[j].ShowID = rows[i].DuplicateOf

\* ---------------------------------------------------------------------------
\* C27: a representative file that cannot be read leaves the row unlinked

\* the show rows with a representative file that cannot be read
C27_Failed == {i \in C4_ShowRows : ~C4_Readable(i)}

\* C27: with checksums enabled, a row with a representative file that cannot
\* be read has an empty ChecksumSHA1 and an empty DuplicateOf, and no row
\* names it in its DuplicateOf; a checksum that is not empty is the digest of
\* all representative files; and the empty string is no key of
\* checksum_to_showid.
C27_FailedChecksumUnlinked ==
    do_checksums =>
        /\ \A i \in C27_Failed :
               /\ rows[i].ChecksumSHA1 = ""
               /\ rows[i].DuplicateOf = ""
               /\ \A j \in 1..Len(rows) : rows[j].DuplicateOf # rows[i].ShowID
        /\ \A i \in C4_ShowRows :
               rows[i].ChecksumSHA1 # "" =>
                   rows[i].ChecksumSHA1 = Sha1Hex(AllBytes(C4_RepFiles(i)))
        /\ \A k \in 1..Len(checksum_to_showid) : checksum_to_showid[k][1] # ""

\* a scan with checksums is over, and a row whose media could not be read
\* stands beside a row with a checksum
C27_Witness ==
    /\ do_checksums
    /\ pc = "done"
    /\ C27_Failed # {}
    /\ \E j \in C4_ShowRows : rows[j].ChecksumSHA1 # ""

\* two rows whose media could not be read
C27_WitnessTwo ==
    /\ do_checksums
    /\ pc = "done"
    /\ \E i, j \in C27_Failed : rows[i].ShowID # rows[j].ShowID

\* ---------------------------------------------------------------------------
\* C28: a date that guess_date returns is a date of the calendar's form

\* s is YYYY-MM-DD with a month in 1..12 and a day in 1..31
C28_IsIsoDate(s) ==
    /\ Len(s) = 10
    /\ AllDigits(s, 1, 4) /\ ChAt(s, 5) = "-"
    /\ AllDigits(s, 6, 2) /\ ChAt(s, 8) = "-"
    /\ AllDigits(s, 9, 2)
    /\ StrToNat(SubSeq(s, 6, 7)) \in 1..12
    /\ StrToNat(SubSeq(s, 9, 10)) \in 1..31

\* C28: what guess_date returns is empty or an ISO-form date with a month in
\* 1..12 and a day in 1..31.
C28_ReturnsIsoDate ==
    (fn = "guess_date" /\ returned /\ res # "") => C28_IsIsoDate(res)

(***************************************************************************)
(* master_drive_name_for, and a harness for it: the folder is one of       *)
(* DriveFolders, the roots are at most MaxDriveRoots of DriveRoots.  No    *)
(* path of the harness is a symbolic link, so resolve() changes none.      *)
(***************************************************************************)
MaxDriveRoots == 2

DriveFolders ==
    {<<"mnt", "AB", "show">>, <<"mnt", "A", "show">>, <<"mnt", "A", "B", "show">>, <<"x", "show">>}

DriveRoots == {<<"mnt", "A">>, <<"mnt", "AB">>, <<"mnt">>, <<"mnt", "A", "B">>, <<"y">>}

RECURSIVE DriveRootLists(_)
DriveRootLists(n) ==
    IF n = 0 THEN {<<>>}
    ELSE LET shorter == DriveRootLists(n - 1)
         IN  shorter \cup {Append(l, r) : l \in shorter, r \in DriveRoots}

\* sorted(roots, key=lambda p: len(str(p)), reverse=True)
LongestFirst(root_list) == StableSort(root_list, LAMBDA a, b : Len(PathStr(a)) > Len(PathStr(b)))

\* the loop over the sorted roots: the first r with f.startswith(rp), the
\* empty path when there is none
ChosenRoot(f, sorted) ==
    LET hits == {k \in 1..Len(sorted) : StartsAt(f, 1, PathStr(sorted[k]))}
    IN  IF hits = {} THEN <<>> ELSE sorted[MinOf(hits)]

master_drive_name_for(folder, root_list) == ChosenRoot(PathStr(folder), LongestFirst(root_list))

InitDrive ==
    /\ fn = "master_drive_name_for"
    /\ arg \in {<<f, l>> : f \in DriveFolders, l \in DriveRootLists(MaxDriveRoots)}
    /\ res = <<>>
    /\ returned = FALSE
    /\ WalkIdle
    /\ ShotIdle

CallMasterDriveNameFor ==
    /\ fn = "master_drive_name_for"
    /\ ~returned
    /\ res' = master_drive_name_for(arg[1], arg[2])
    /\ returned' = TRUE
    /\ UNCHANGED <<fn, arg>>
    /\ UNCHANGED <<wvars, svars>>

NextDrive == CallMasterDriveNameFor

SpecDrive == InitDrive /\ [][NextDrive]_vars

\* ---------------------------------------------------------------------------
\* C29: the master drive is the longest root that contains the folder

\* the roots of the list that are the folder or a directory above it
C29_Ancestors(folder, root_list) ==
    {root_list[k] : k \in {k \in 1..Len(root_list) : IsPrefix(root_list[k], folder)}}

\* C29: master_drive_name_for returns the empty path when no root of the
\* list contains the folder, and else a root that contains it and is at
\* least as long as every other root that does.
C29_LongestAncestorRoot ==
    (fn = "master_drive_name_for" /\ returned) =>
        LET anc == C29_Ancestors(arg[1], arg[2])
        IN  IF anc = {} THEN res = <<>>
            ELSE /\ res \in anc
                 /\ \A r \in anc : Len(PathStr(r)) <= Len(PathStr(res))

(***************************************************************************)
(* compute_shot_time_for_file, and a harness for it.  Of the file the      *)
(* function uses the duration that get_file_duration_sec reports, 0 when   *)
(* ffprobe fails.  The entries of SHOT_TIMES are held in hundredths: the   *)
(* configuration comment allows fractions of the duration and, for fixed   *)
(* seconds, values above 1.                                                *)
(***************************************************************************)
MaxDuration == 12

\* SHOT_TIMES = [0.11, 0.27, 0.56, 0.73]
SHOT_TIMES == <<11, 27, 56, 73>>

FALLBACK_SECONDS == <<10, 60, 180, 220>>

\* the configurations of the harness: the one of the source, and one with the
\* fraction 1.0 and a value in seconds
ShotTimeConfigs == {SHOT_TIMES, <<11, 100, 3000, 73>>}

\* max(1, duration - 1)
BeforeEnd(duration) == IF duration - 1 > 1 THEN duration - 1 ELSE 1

\* case 1: int(duration * val), at least 3 for a file longer than 6 seconds
FractionTime(duration, val) ==
    LET t == (duration * val) \div 100
        t3 == IF t < 3 /\ duration > 6 THEN 3 ELSE t
    IN  IF t3 >= duration THEN BeforeEnd(duration) ELSE t3

\* case 2: the fallback seconds
FallbackTime(duration, fb) ==
    IF duration > 0 /\ fb >= duration THEN BeforeEnd(duration) ELSE fb

compute_shot_time_for_file(duration, idx, shot_times) ==
    LET val == shot_times[(idx % Len(shot_times)) + 1]
    IN  IF duration > 0 /\ 0 < val /\ val <= 100 THEN FractionTime(duration, val)
        ELSE FallbackTime(duration, FALLBACK_SECONDS[(idx % Len(FALLBACK_SECONDS)) + 1])

InitShotTime ==
    /\ fn = "compute_shot_time_for_file"
    /\ arg \in {<<d, i, c>> : d \in 0..MaxDuration, i \in 0..Len(SHOT_TIMES), c \in ShotTimeConfigs}
    /\ res = 0
    /\ returned = FALSE
    /\ WalkIdle
    /\ ShotIdle

CallComputeShotTime ==
    /\ fn = "compute_shot_time_for_file"
    /\ ~returned
    /\ res' = compute_shot_time_for_file(arg[1], arg[2], arg[3])
    /\ returned' = TRUE
    /\ UNCHANGED <<fn, arg>>
    /\ UNCHANGED <<wvars, svars>>

NextShotTime == CallComputeShotTime

SpecShotTime == InitShotTime /\ [][NextShotTime]_vars

\* ---------------------------------------------------------------------------
\* C30: the shot time lies before the end of a file of known duration

C30_Called == fn = "compute_shot_time_for_file" /\ returned

\* C30: for a duration d > 0 the time returned is at least 0 and less than d.
C30_ShotTimeBeforeEnd ==
    (C30_Called /\ arg[1] > 0) => (0 <= res /\ res < arg[1])

\* the same for the values of SHOT_TIMES as the source has them
C30_ShotTimeBeforeEndAsConfigured ==
    (C30_Called /\ arg[1] > 0 /\ arg[3] = SHOT_TIMES) => (0 <= res /\ res < arg[1])

====
